---- MODULE Spec2Model ----
(***************************************************************************)
(* A model of the listing repository (src/api.js, class RealEstateAPI):    *)
(* the cache, the retry loop, the three fetch operations and the           *)
(* normalisation of raw records, as a state machine over the suspension    *)
(* points of the async functions.                                          *)
(***************************************************************************)
EXTENDS Integers, Sequences, FiniteSets, TLC

(***************************************************************************)
(* Bounds of the model.                                                    *)
(***************************************************************************)
\* number of result objects the repository allocates in one behaviour
MaxObjects == 2
\* largest listing id a caller asks for
MaxId == 1

(***************************************************************************)
(* JavaScript values of the fields of a raw record.  A number is n + f/10. *)
(***************************************************************************)
Undef == [t |-> "undefined", n |-> 0, f |-> 0, s |-> ""]
NaN == [t |-> "number", n |-> 0, f |-> 0, s |-> "NaN"]
Dec(n, f) == [t |-> "number", n |-> n, f |-> f, s |-> ""]
Num(n) == Dec(n, 0)
Str(s) == [t |-> "string", n |-> 0, f |-> 0, s |-> s]
Bool(b) == [t |-> "boolean", n |-> IF b THEN 1 ELSE 0, f |-> 0, s |-> ""]

\* ToBoolean, as used by ! and ||
Truthy(v) ==
    CASE v.t = "number" -> v.s # "NaN" /\ (v.n # 0 \/ v.f # 0)
      [] v.t = "string" -> v.s # ""
      [] v.t = "boolean" -> v.n = 1
      [] OTHER -> FALSE

\* a || b
Or(a, b) == IF Truthy(a) THEN a ELSE b

\* String(v), as in template literals and URLSearchParams
ToStr(v) ==
    CASE v.t = "string" -> v.s
      [] v.t = "boolean" -> IF v.n = 1 THEN "true" ELSE "false"
      [] v.t = "number" /\ v.s = "NaN" -> "NaN"
      [] v.t = "number" /\ v.f = 0 -> ToString(v.n)
      [] v.t = "number" -> ToString(v.n) \o "." \o ToString(v.f)
      [] OTHER -> v.t

\* Number(s) of the strings the model's origin sends
StringToNumber(s) ==
    CASE s \in {"", " ", "0"} -> Num(0)
      [] s = "3" -> Num(3)
      [] s = "2.5" -> Dec(2, 5)
      [] s = "250000" -> Num(250000)
      [] OTHER -> NaN

\* the longest numeric prefix of s after leading white space, as parseFloat reads it
StringNumericPrefix(s) ==
    CASE s = "0" -> Num(0)
      [] s = "3" -> Num(3)
      [] s = "2.5" -> Dec(2, 5)
      [] s = "250000" -> Num(250000)
      [] s = "12abc" -> Num(12)
      [] OTHER -> NaN

\* Number(v)
ToNumber(v) ==
    CASE v.t = "number" -> v
      [] v.t = "string" -> StringToNumber(v.s)
      [] v.t = "boolean" -> Num(v.n)
      [] v.t = "null" -> Num(0)
      [] OTHER -> NaN

\* the global isNaN(v)
isNaN(v) == ToNumber(v).s = "NaN"

\* parseFloat(v) = parseFloat(String(v))
parseFloat(v) ==
    CASE v.t = "number" -> v
      [] v.t = "string" -> StringNumericPrefix(v.s)
      [] OTHER -> NaN

\* parseInt(v) = parseInt(String(v)): the integer part of the numeric prefix
parseInt(v) ==
    LET x == parseFloat(v) IN IF x.s = "NaN" THEN NaN ELSE Num(x.n)

RECURSIVE Grouped(_)
\* the digits of n >= 0 in groups of three, en-US
Grouped(n) ==
    IF n < 1000 THEN ToString(n)
    ELSE LET r == n % 1000
             pad == IF r < 10 THEN "00" ELSE IF r < 100 THEN "0" ELSE ""
         IN Grouped(n \div 1000) \o "," \o pad \o ToString(r)

\* Intl.NumberFormat('en-US', {style: 'currency', currency: 'USD',
\* maximumFractionDigits: 0}).format(x)
NumberFormat(x) ==
    IF x.s = "NaN" THEN "$NaN"
    ELSE LET r == IF x.f >= 5 THEN x.n + 1 ELSE x.n
         IN IF r < 0 THEN "-$" \o Grouped(0 - r) ELSE "$" \o Grouped(r)

formatPrice(price) ==
    IF ~Truthy(price) \/ isNaN(price) THEN Str("Price on request")
    ELSE Str(NumberFormat(parseFloat(price)))

(***************************************************************************)
(* JSON the origin answers with.  A body is text that does not parse       *)
(* ("notjson") or a JSON value: null, a scalar, an object or an array of   *)
(* null / scalar / object elements.                                        *)
(***************************************************************************)
\* the value that has no own properties
NoProps == [name \in {} |-> Undef]
JNotJson == [k |-> "notjson", o |-> NoProps, elems |-> <<>>]
JNull == [k |-> "null", o |-> NoProps, elems |-> <<>>]
JScalar == [k |-> "scalar", o |-> NoProps, elems |-> <<>>]
\* the object whose own properties are the fields of the record own
JObject(own) == [k |-> "object", o |-> own, elems |-> <<>>]
JArray(elems) == [k |-> "array", o |-> NoProps, elems |-> elems]

\* the raw listing of the end-to-end scenario, {id: 1, price: 0, bedrooms: "3"}
RawListing == JObject([id |-> Num(1), price |-> Num(0), bedrooms |-> Str("3")])
\* a raw image record that names only its url
RawImage == JObject([url |-> Str("/img/a.jpg")])

\* the bodies the origin answers with
Bodies ==
    {JNotJson, JNull, RawListing, JArray(<<>>), JArray(<<RawListing>>),
     JArray(<<RawImage>>), JArray(<<JNull>>), JArray(<<JScalar>>)}

\* x.name for a value x that is not null (property access on null throws): undefined
\* when x has no such property
Get(x, name) == IF name \in DOMAIN x.o THEN x.o[name] ELSE Undef

(***************************************************************************)
(* Completion of a call: a value returned or an error thrown.              *)
(***************************************************************************)
NoValue == [kind |-> "none", items |-> <<>>]
NoError == [k |-> "none", at |-> 0]
Ok(v) == [ok |-> TRUE, val |-> v, err |-> NoError]
Throw(e) == [ok |-> FALSE, val |-> NoValue, err |-> e]
TypeError == [k |-> "TypeError", at |-> 0]
SyntaxError == [k |-> "SyntaxError", at |-> 0]

\* new Date().toISOString() at the time of the call
Now == Str("now")

\* the object normalizeProperty returns for a property that is not null
Normalized(property) ==
       [
        id |-> Or(Get(property, "id"), Get(property, "property_id")),
        title |-> Or(Get(property, "title"),
                     Or(Get(property, "name"), Str("Untitled Property"))),
        price |-> formatPrice(Get(property, "price")),
        location |-> [
            address |-> Or(Get(property, "address"), Str("")),
            city |-> Or(Get(property, "city"), Str("")),
            state |-> Or(Get(property, "state"), Str("")),
            zip |-> Or(Get(property, "zip"), Or(Get(property, "postal_code"), Str(""))),
            country |-> Or(Get(property, "country"), Str("US"))],
        features |-> [
            bedrooms |-> parseInt(Or(Get(property, "bedrooms"),
                                     Or(Get(property, "beds"), Num(0)))),
            bathrooms |-> parseFloat(Or(Get(property, "bathrooms"),
                                        Or(Get(property, "baths"), Num(0)))),
            area |-> parseInt(Or(Get(property, "area"),
                                 Or(Get(property, "square_feet"), Num(0)))),
            type |-> Or(Get(property, "type"),
                        Or(Get(property, "property_type"), Str("Unknown"))),
            yearBuilt |-> parseInt(Or(Get(property, "year_built"),
                                      Or(Get(property, "built_year"), Num(0)))),
            garage |-> parseInt(Or(Get(property, "garage_spaces"),
                                   Or(Get(property, "garage"), Num(0))))],
        description |-> Or(Get(property, "description"), Str("")),
        status |-> Or(Get(property, "status"), Str("available")),
        images |-> <<>>,
        createdAt |-> Or(Get(property, "created_at"), Or(Get(property, "date_added"), Now)),
        updatedAt |-> Or(Get(property, "updated_at"),
                         Or(Get(property, "date_modified"), Now))]

\* a normalizeProperty that does not refer to `this`
normalizePropertyAnyThis(thisBound, property) ==
    IF property.k = "null" THEN Throw(TypeError) ELSE Ok(Normalized(property))
\* thisBound: whether `this` is the RealEstateAPI instance in the call
normalizeProperty(thisBound, property) ==
    IF property.k = "null" \/ ~thisBound THEN Throw(TypeError)
    ELSE Ok(Normalized(property))

getPlaceholderImage == Str("data:image/svg+xml;base64,PHN2ZyB3aWR0aD0iNDAwIi")

\* the callback of images.map in fetchPropertyImages
validateImage(img, propertyId) ==
    IF img.k = "null" THEN Throw(TypeError)
    ELSE Ok([
        url |-> Get(img, "url"),
        thumbnail |-> Or(Get(img, "thumbnail"), Get(img, "url")),
        alt |-> Or(Get(img, "alt"),
                   Str("Property " \o ToString(propertyId) \o " image")),
        caption |-> Or(Get(img, "caption"), Str(""))])

\* the array returned by the catch block of fetchPropertyImages
PlaceholderImages ==
    <<[url |-> getPlaceholderImage, thumbnail |-> getPlaceholderImage,
       alt |-> Str("Property image not available"), caption |-> Str("")]>>

MockListing(id, title, price, loc, beds, baths, area, type, year, garage, description) ==
    [id |-> Num(id), title |-> Str(title), price |-> Str(price),
     location |-> [address |-> Str(loc[1]), city |-> Str(loc[2]), state |-> Str(loc[3]),
                   zip |-> Str(loc[4]), country |-> Str("US")],
     features |-> [bedrooms |-> Num(beds), bathrooms |-> baths, area |-> Num(area),
                   type |-> Str(type), yearBuilt |-> Num(year), garage |-> Num(garage)],
     description |-> Str(description), status |-> Str("available"), images |-> <<>>,
     createdAt |-> Now, updatedAt |-> Now]

getMockProperties ==
    <<MockListing(1, "Luxury Waterfront Villa", "$2,850,000",
                  <<"123 Ocean Drive", "Miami Beach", "FL", "33139">>,
                  5, Dec(4, 5), 4200, "Villa", 2018, 3, "Stunning waterfront villa"),
      MockListing(2, "Modern Downtown Penthouse", "$1,650,000",
                  <<"456 High Street", "Seattle", "WA", "98101">>,
                  3, Num(3), 2800, "Penthouse", 2020, 2, "Sophisticated penthouse"),
      MockListing(3, "Charming Victorian Home", "$875,000",
                  <<"789 Elm Avenue", "San Francisco", "CA", "94102">>,
                  4, Num(2), 2100, "Victorian", 1895, 1,
                  "Beautifully restored Victorian home")>>

\* Array.prototype.map, given the callback's completion for each element: the array
\* of the values, or the first error the callback throws, which ends the map
ArrayMap(results) ==
    IF \E i \in DOMAIN results : ~results[i].ok
    THEN results[CHOOSE i \in DOMAIN results :
                     ~results[i].ok /\ \A j \in 1..(i - 1) : results[j].ok]
    ELSE Ok([i \in DOMAIN results |-> results[i].val])

(***************************************************************************)
(* Options of fetchProperties and the cache keys.  An options object is    *)
(* the sequence of its own properties in insertion order.                  *)
(***************************************************************************)
Field(name, value) == [name |-> name, value |-> value]

Has(options, name) == \E i \in DOMAIN options : options[i].name = name

\* options[name], undefined when options has no such property
Prop(options, name) ==
    IF Has(options, name)
    THEN options[CHOOSE i \in DOMAIN options : options[i].name = name].value
    ELSE Undef

OptionsSet ==
    {<<>>,
     <<Field("useMockData", Bool(FALSE))>>}

Ids == 1..MaxId

\* {limit: options.limit || 50, offset: options.offset || 0, ...options}: limit and
\* offset come first, a property of options replaces their value in place, and the
\* other properties of options follow in insertion order
SearchParams(options) ==
    <<Field("limit", IF Has(options, "limit") THEN Prop(options, "limit")
                     ELSE Or(Prop(options, "limit"), Num(50))),
      Field("offset", IF Has(options, "offset") THEN Prop(options, "offset")
                      ELSE Or(Prop(options, "offset"), Num(0)))>>
        \o SelectSeq(options, LAMBDA p : p.name \notin {"limit", "offset"})

RECURSIVE ParamsToString(_)
\* URLSearchParams.prototype.toString
ParamsToString(params) ==
    IF params = <<>> THEN ""
    ELSE LET pair == Head(params).name \o "=" \o ToStr(Head(params).value)
         IN IF Len(params) = 1 THEN pair
            ELSE pair \o "&" \o ParamsToString(Tail(params))

PropertiesKey(options) == "properties_" \o ParamsToString(SearchParams(options))
PropertyKey(id) == "property_" \o ToString(id)
ImagesKey(propertyId) == "images_" \o ToString(propertyId)

\* the fallback is never permitted
UsesMockDataNever(options) == FALSE
\* the fallback is permitted whatever the options say
UsesMockDataAlways(options) == TRUE
\* options.useMockData !== false
UsesMockData(options) == Prop(options, "useMockData") # Bool(FALSE)

(***************************************************************************)
(* Inputs of the pure functions: prices, raw records that name one numeric *)
(* feature under its key and its alternate key, and options objects.       *)
(***************************************************************************)
\* the JSON value null as the value of a property
Null == [t |-> "null", n |-> 0, f |-> 0, s |-> ""]

\* Intl.NumberFormat('en-GB', {style: 'currency', currency: 'EUR',
\* minimumFractionDigits: 0, maximumFractionDigits: 0}).format(x); "EUR" stands for
\* the euro sign
NumberFormatEUR(x) ==
    IF x.s = "NaN" THEN "EURNaN"
    ELSE LET r == IF x.f >= 5 THEN x.n + 1 ELSE x.n
         IN IF r < 0 THEN "-EUR" \o Grouped(0 - r) ELSE "EUR" \o Grouped(r)

\* formatPrice of the curated-list controller: format(price) converts with Number
PropertySlideshow_formatPrice(price) ==
    IF ~Truthy(price) THEN Str("Price on request")
    ELSE Str(NumberFormatEUR(ToNumber(price)))

\* the raw prices the functions are applied to
PriceValues ==
    {Undef, Null, NaN, Num(0), Num(250000), Dec(2, 5), Str(""), Str(" "), Str("0"),
     Str("abc"), Str("12abc"), Str("250000"), Str("2.5"), Bool(TRUE), Bool(FALSE)}

\* the values of a numeric feature in a raw record; Undef: the record has no such key
FeatureValues == {Undef, Null, Num(0), Num(3), Num(-2), Str("3"), Str("abc"), Str("")}

\* the numeric features of a listing, each with the two keys of the raw record it is
\* read from, in the order normalizeProperty reads them
FeatureKeys ==
    {[feature |-> "bedrooms", first |-> "bedrooms", second |-> "beds"],
     [feature |-> "bathrooms", first |-> "bathrooms", second |-> "baths"],
     [feature |-> "area", first |-> "area", second |-> "square_feet"],
     [feature |-> "yearBuilt", first |-> "year_built", second |-> "built_year"],
     [feature |-> "garage", first |-> "garage_spaces", second |-> "garage"]}

\* the raw record {[k.first]: v1, [k.second]: v2}, without the key whose value is Undef
RawWith(k, v1, v2) ==
    JObject([name \in {n \in {k.first, k.second} :
                          IF n = k.first THEN v1 # Undef ELSE v2 # Undef} |->
                 IF name = k.first THEN v1 ELSE v2])

\* the options objects whose keys are compared: the same fields in both orders
KeyOptions ==
    {<<>>,
     <<Field("status", Str("sold"))>>,
     <<Field("status", Str("sold")), Field("type", Str("house"))>>,
     <<Field("type", Str("house")), Field("status", Str("sold"))>>,
     <<Field("limit", Num(10)), Field("status", Str("sold"))>>,
     <<Field("status", Str("sold")), Field("limit", Num(10))>>,
     <<Field("type", Str("house")), Field("offset", Num(0))>>}

NoFeatureKey == [feature |-> "", first |-> "", second |-> ""]
\* nothing has been applied
NoInput ==
    [fn |-> "none", price |-> Undef, raw |-> JNull, key |-> NoFeatureKey,
     options |-> <<>>, other |-> <<>>]
NoFeatures ==
    [bedrooms |-> Undef, bathrooms |-> Undef, area |-> Undef, type |-> Undef,
     yearBuilt |-> Undef, garage |-> Undef]
NoOutput ==
    [done |-> FALSE, price |-> Undef, other |-> Undef, features |-> NoFeatures,
     keys |-> <<>>]

\* the applications of the pure functions that are examined
Inputs ==
    {[NoInput EXCEPT !.fn = "formatPrice", !.price = v] : v \in PriceValues}
    \cup {[NoInput EXCEPT !.fn = "normalizeProperty", !.key = k, !.raw = RawWith(k, v1, v2)] :
              k \in FeatureKeys, v1 \in FeatureValues, v2 \in FeatureValues}
    \cup {[NoInput EXCEPT !.fn = "cacheKey", !.options = o1, !.other = o2] :
              o1 \in KeyOptions, o2 \in KeyOptions}

(***************************************************************************)
(* The playback controller (src/slideshow.js, class RealEstateSlideshow).  *)
(* Its fields, the intervals it has set and the parts of the page it       *)
(* writes are the fields of one record; a method is an operator from the   *)
(* record before the call to the record after it.                          *)
(***************************************************************************)
\* refresh() calls that are in flight at the same time
MaxRefresh == 1

\* arithmetic and comparison of JavaScript on integers and NaN
JsAdd(v, k) == IF v.s = "NaN" THEN NaN ELSE Num(v.n + k)
\* v % m keeps the sign of v; v % 0 is NaN
JsMod(v, m) ==
    IF v.s = "NaN" \/ m = 0 THEN NaN
    ELSE IF v.n >= 0 THEN Num(v.n % m) ELSE Num(0 - ((0 - v.n) % m))
\* a === b
JsStrictEq(a, b) == a.s # "NaN" /\ b.s # "NaN" /\ a = b
\* v < k and v >= k, false of NaN
JsLt(v, k) == v.s # "NaN" /\ v.n < k
JsGe(v, k) == v.s # "NaN" /\ v.n >= k

\* properties[index] exists
HasIndex(properties, index) == index.s # "NaN" /\ index.n \in 0..(Len(properties) - 1)

\* what the controller keeps of a listing the repository returned: images is "none"
\* for the empty array the repository puts there, "images" for the array an image
\* fetch delivered and "placeholder" for the placeholder array
Listing(item) == [id |-> item.id.n, images |-> "none"]
ImageOutcomes == {"images", "placeholder"}

\* the page: the loading indicator and the error message shown or hidden, the id of
\* the listing rendered in currentSlide (0: none), the slide counter and the progress
\* bar as <<position, total>>
InitialView ==
    [loading |-> FALSE, error |-> FALSE, slide |-> 0,
     counter |-> <<Num(0), 0>>, progress |-> <<Num(0), 0>>]

\* the fields the constructor sets, with no interval set
Constructor ==
    [properties |-> <<>>, currentIndex |-> Num(0), isPlaying |-> TRUE,
     autoAdvanceInterval |-> 0, autoAdvanceDelay |-> 8000, isLoading |-> FALSE,
     keyboardEnabled |-> TRUE, intervals |-> {}, view |-> InitialView]

\* showLoading(show)
showLoading(s, show) == [s EXCEPT !.view.loading = show]

\* showError(message)
showError(s) == [showLoading(s, FALSE) EXCEPT !.view.error = TRUE]

\* clearInterval(id) and setInterval(callback, delay): an interval is its id and
\* whether time has passed since it was set or last fired
ClearInterval(intervals, id) == {t \in intervals : t.id # id}
FreshId(intervals) ==
    CHOOSE id \in 1..(Cardinality(intervals) + 1) : \A t \in intervals : t.id # id

\* a stop that forgets the handle and leaves the interval running
stopAutoAdvanceLeaks(s) == [s EXCEPT !.autoAdvanceInterval = 0]
stopAutoAdvance(s) ==
    IF s.autoAdvanceInterval # 0
    THEN [s EXCEPT !.intervals = ClearInterval(@, s.autoAdvanceInterval),
                   !.autoAdvanceInterval = 0]
    ELSE s

startAutoAdvance(s) ==
    IF ~s.isPlaying THEN s
    ELSE LET stopped == stopAutoAdvance(s)
             id == FreshId(stopped.intervals)
         IN [stopped EXCEPT !.intervals = @ \cup {[id |-> id, elapsed |-> FALSE]},
                            !.autoAdvanceInterval = id]

resetAutoAdvance(s) == IF s.isPlaying THEN startAutoAdvance(s) ELSE s

play(s) == startAutoAdvance([s EXCEPT !.isPlaying = TRUE])

\* a pause that leaves the interval running
pauseKeepsTimer(s) == [s EXCEPT !.isPlaying = FALSE]
pause(s) == stopAutoAdvance([s EXCEPT !.isPlaying = FALSE])

togglePlayPause(s) == IF s.isPlaying THEN pause(s) ELSE play(s)

updateProgress(s) ==
    [s EXCEPT !.view.progress = <<JsAdd(s.currentIndex, 1), Len(s.properties)>>]

updateSlideCounter(s) ==
    [s EXCEPT !.view.counter = <<JsAdd(s.currentIndex, 1), Len(s.properties)>>]

\* a catch block that leaves the transition open
displayCatchKeepsLoading(s) == s
\* the catch block of displaySlide
displayCatch(s) == [s EXCEPT !.isLoading = FALSE]

\* displaySlide(index): createSlideHTML(property) throws a TypeError when there is no
\* properties[index]
displaySlide(s, index) ==
    IF JsLt(index, 0) \/ JsGe(index, Len(s.properties)) \/ s.isLoading THEN s
    ELSE LET entered == [s EXCEPT !.isLoading = TRUE, !.currentIndex = index]
         IN IF ~HasIndex(s.properties, index) THEN displayCatch(entered)
            ELSE LET property == s.properties[index.n + 1]
                     rendered == [entered EXCEPT !.view.slide = property.id]
                 IN [updateSlideCounter(updateProgress(rendered))
                        EXCEPT !.isLoading = FALSE]

\* preloadNextSlide() creates an Image for the browser to load and changes no field
preloadNextSlide(s) == s

\* a goToSlide that leaves the running interval as it is
goToSlideNoReset(s, index) ==
    IF JsStrictEq(index, s.currentIndex) \/ s.isLoading THEN s
    ELSE preloadNextSlide(displaySlide(s, index))
\* goToSlide(index), with what follows its await
goToSlide(s, index) ==
    IF JsStrictEq(index, s.currentIndex) \/ s.isLoading THEN s
    ELSE LET shown == preloadNextSlide(displaySlide(s, index))
         IN IF shown.isPlaying THEN resetAutoAdvance(shown) ELSE shown

\* an index that runs off the end
nextIndexNoWrap(s) == JsAdd(s.currentIndex, 1)
\* nextIndex of nextSlide()
nextIndex(s) == JsMod(JsAdd(s.currentIndex, 1), Len(s.properties))

\* prevIndex of previousSlide()
prevIndex(s) ==
    IF JsStrictEq(s.currentIndex, Num(0)) THEN Num(Len(s.properties) - 1)
    ELSE JsAdd(s.currentIndex, -1)

nextSlide(s) == goToSlide(s, nextIndex(s))

\* the indices nextSlide() and previousSlide() of the curated-list controller go to
PropertySlideshow_nextIndex(s) == JsMod(JsAdd(s.currentIndex, 1), Len(s.properties))
PropertySlideshow_prevIndex(s) ==
    JsMod(JsAdd(JsAdd(s.currentIndex, -1), Len(s.properties)), Len(s.properties))

previousSlide(s) == goToSlide(s, prevIndex(s))

\* a load (init() or refresh()) and where it is suspended: "fetch" at the await of
\* fetchProperties(), "images" at the await of preloadPropertyImages(); count is the
\* number of image fetches it started, wasPlaying is isPlaying at the call, failed the
\* indices of the image fetches that settled with the placeholder
Loads == 0..MaxRefresh
NoLoad ==
    [pc |-> "idle", count |-> 0, wasPlaying |-> FALSE, missed |-> FALSE, failed |-> {}]

\* no handler has run
NoEvent == [op |-> "none", arg |-> Undef, load |-> NoLoad, from |-> Num(0)]

(***************************************************************************)
(* The controller of the curated list (src/unnamed/part_001, class         *)
(* PropertySlideshow).  Its timers are kept in the order they were set,    *)
(* each with the time left until it fires.                                 *)
(***************************************************************************)
\* pending timers beyond which no further navigation by hand is examined
MaxTimers == 3

\* this.slideInterval
slideInterval == 8000
\* displayTime of a message whose item has no secs
DefaultDisplayTime == 4000
\* displayTime of a message whose item has secs: 12000
LongDisplayTime == 12000

\* what the controller keeps of an item: its kind and, of a message, its displayTime
Message(displayTime) == [kind |-> "message", displayTime |-> displayTime]
Sale == [kind |-> "listing", displayTime |-> 0]
Rental == [kind |-> "rental", displayTime |-> 0]

\* the properties loadProperties() ends with when it does not go on to loadFromAPI()
CuratedLists ==
    {<<Message(DefaultDisplayTime), Sale>>,
     <<Message(LongDisplayTime), Sale>>,
     <<Sale, Message(DefaultDisplayTime), Rental>>,
     <<Rental>>}

\* getMockProperties() of the curated-list controller
PropertySlideshow_getMockProperties == <<Sale, Sale, Sale, Sale, Sale>>

\* the properties loadFromAPI() ends with: the records of the feed that have images,
\* none or two of them, or the sample data of its catch block
FeedResults == {<<>>, <<Sale, Sale>>, PropertySlideshow_getMockProperties}

\* the fields the constructor sets and the page, with init() suspended in
\* loadProperties(); shownFor is the time the slide has been on the page, by who put it
\* there, and clean whether playing was not paused since
PropertySlideshow_Constructor ==
    [pc |-> "list", properties |-> <<>>, currentIndex |-> Num(0), isPlaying |-> TRUE,
     intervalId |-> 0, timers |-> <<>>, listening |-> FALSE, hidden |-> FALSE,
     view |-> [loading |-> TRUE, error |-> FALSE, slide |-> 0, shownFor |-> 0,
               by |-> "none", clean |-> TRUE]]

\* setInterval and setTimeout: the timer is the last that was set
TimerId(timers) ==
    CHOOSE id \in 1..(Len(timers) + 1) : \A i \in DOMAIN timers : timers[i].id # id
SetTimer(timers, kind, delay) ==
    Append(timers, [id |-> TimerId(timers), kind |-> kind, left |-> delay])

PropertySlideshow_clearInterval(s) ==
    IF s.intervalId # 0
    THEN [s EXCEPT !.timers = SelectSeq(@, LAMBDA t : t.id # s.intervalId),
                   !.intervalId = 0]
    ELSE s

PropertySlideshow_startSlideshow(s) ==
    LET cleared == PropertySlideshow_clearInterval(s)
    IN IF cleared.isPlaying
       THEN [cleared EXCEPT !.timers = SetTimer(@, "interval", slideInterval),
                            !.intervalId = TimerId(cleared.timers)]
       ELSE cleared

\* a pause that leaves the interval running
PropertySlideshow_pauseKeepsInterval(s) == [s EXCEPT !.isPlaying = FALSE, !.view.clean = FALSE]
PropertySlideshow_pauseSlideshow(s) ==
    PropertySlideshow_clearInterval([s EXCEPT !.isPlaying = FALSE, !.view.clean = FALSE])

PropertySlideshow_resumeSlideshow(s) ==
    PropertySlideshow_startSlideshow([s EXCEPT !.isPlaying = TRUE])

PropertySlideshow_togglePlayPause(s) ==
    IF s.isPlaying THEN PropertySlideshow_pauseSlideshow(s)
    ELSE PropertySlideshow_resumeSlideshow(s)

\* the page shows properties[currentIndex]
Shows(s) ==
    [s EXCEPT !.view.slide = s.currentIndex.n + 1, !.view.shownFor = 0,
              !.view.clean = TRUE]

\* showMessage(message), for a message without a background colour
PropertySlideshow_showMessage(s, message) ==
    Shows(IF message.displayTime # 0 /\ s.isPlaying
          THEN [s EXCEPT !.timers = SetTimer(@, "timeout", message.displayTime)]
          ELSE s)

\* updateDisplay() when there is a properties[currentIndex]
PropertySlideshow_updateDisplay(s) ==
    LET property == s.properties[s.currentIndex.n + 1]
    IN IF property.kind = "message" THEN PropertySlideshow_showMessage(s, property)
       ELSE Shows(s)

\* goToSlide(index): updateDisplay() throws a TypeError when there is no
\* properties[index], and the call ends there
PropertySlideshow_goToSlide(s, index) ==
    LET at == [s EXCEPT !.currentIndex = index]
    IN IF ~HasIndex(s.properties, index) THEN at
       ELSE PropertySlideshow_startSlideshow(PropertySlideshow_updateDisplay(at))

PropertySlideshow_nextSlide(s) == PropertySlideshow_goToSlide(s, PropertySlideshow_nextIndex(s))

PropertySlideshow_previousSlide(s) ==
    PropertySlideshow_goToSlide(s, PropertySlideshow_prevIndex(s))

PropertySlideshow_showError(s) == [s EXCEPT !.view.loading = FALSE, !.view.error = TRUE]

\* init() after loadProperties() has resolved; loadProperties() never rejects
PropertySlideshow_init(s) ==
    LET started == PropertySlideshow_startSlideshow([s EXCEPT !.listening = TRUE])
    IN IF ~HasIndex(started.properties, started.currentIndex)
       THEN PropertySlideshow_showError([started EXCEPT !.pc = "error"])
       ELSE [PropertySlideshow_updateDisplay(started) EXCEPT
                !.pc = "ready", !.view.loading = FALSE, !.view.by = "init"]

\* nothing has happened on the page
NoStep == [op |-> "none", kind |-> "none"]

(***************************************************************************)
(* The retry policy of fetchWithRetry.                                     *)
(***************************************************************************)
retryAttempts == 3
retryDelay == 1000

\* a loop that never gives up
HasAttemptsLeftForever(attempt) == TRUE
\* a loop that makes one attempt too many
HasAttemptsLeftOffByOne(attempt) == attempt <= retryAttempts
\* the loop goes on to another attempt after a failed one
HasAttemptsLeft(attempt) == attempt < retryAttempts
\* a backoff that does not grow with the attempt
BackoffDelayConstant(attempt) == retryDelay
\* the delay awaited after the failure of attempt
BackoffDelay(attempt) == retryDelay * attempt
\* a loop that keeps the first error instead of the latest
RecordErrorFirst(lastError, error) == IF lastError.k = "none" THEN error ELSE lastError
\* lastError = error
RecordError(lastError, error) == error
\* what an attempt can come to: the transport fails, a non-2xx status, a 2xx status
Outcomes == {"network", "http", "ok"}

(***************************************************************************)
(* loadProperties() of the curated-list controller (src/unnamed/part_001), *)
(* from its first await to its end: what it has read of the list, the item *)
(* of the loop it is at, and the properties it has pushed.                 *)
(***************************************************************************)
\* items of the list beyond which no list is examined
MaxItems == 2

\* the items of /api/slideshow-list: a message without secs or with secs 12000, a
\* rental, a sales reference, and null, whose item.type throws a TypeError
ListItems ==
    {[type |-> "MSG", secs |-> 0], [type |-> "MSG", secs |-> LongDisplayTime],
     [type |-> "RENT", secs |-> 0], [type |-> "SALE", secs |-> 0],
     [type |-> "null", secs |-> 0]}

\* what `await listResponse.json()` gives: the promise rejects, a value that cannot be
\* iterated, or an array of items
ListBodies ==
    {[k |-> "notjson", items |-> <<>>], [k |-> "notiterable", items |-> <<>>]}
    \cup {[k |-> "array", items |-> items] :
              items \in UNION {[1..n -> ListItems] : n \in 0..MaxItems}}

\* what loadFromAPI() reads after an ok response: response.json() or JSON.parse rejects,
\* the data have no properties array, or the feed has no or two records with images
FeedBodies ==
    {[k |-> "notjson", usable |-> <<>>], [k |-> "noproperties", usable |-> <<>>],
     [k |-> "properties", usable |-> <<>>], [k |-> "properties", usable |-> <<Sale, Sale>>]}

\* loadProperties() suspended at fetch('/api/slideshow-list'); list and feed tell how
\* the two sources ended, resolved which items gave a slide, apiCalls how often
\* loadFromAPI() was called
LoadPropertiesCalled ==
    [pc |-> "list", listData |-> <<>>, i |-> 0, resolved |-> <<>>, properties |-> <<>>,
     apiCalls |-> 0, from |-> "none", list |-> "pending", feed |-> "none"]

\* `await this.loadFromAPI()` up to its fetch, after the list ended as how
loadFromAPI(l, how) == [l EXCEPT !.pc = "feed", !.apiCalls = @ + 1, !.list = how]

\* this.properties.push(slide)
Push(l, i, slide) ==
    [l EXCEPT !.i = i, !.properties = Append(@, slide), !.resolved = Append(@, TRUE)]

\* the for-of loop from the item after l.i to the next loadSalesProperty() it awaits, or
\* to its end and the statements after it, or to the catch block
RECURSIVE Loop(_)
Loop(l) ==
    LET i == l.i + 1
    IN IF i > Len(l.listData)
       THEN IF Len(l.properties) > 0
            THEN [l EXCEPT !.pc = "done", !.from = "list", !.list = "delivered"]
            ELSE loadFromAPI(l, "empty")
       ELSE LET item == l.listData[i]
            IN CASE item.type = "null" -> loadFromAPI(l, "threw")
                 [] item.type = "MSG" ->
                        Loop(Push(l, i, Message(IF item.secs # 0 THEN item.secs
                                                ELSE DefaultDisplayTime)))
                 [] item.type = "RENT" -> Loop(Push(l, i, Rental))
                 [] OTHER -> [l EXCEPT !.i = i, !.pc = "item"]

\* an assignment that keeps what the list had pushed
FeedAppends(properties, result) == properties \o result
\* this.properties = ..., in the try and in the catch block of loadFromAPI()
FeedAssign(properties, result) == result

\* loadFromAPI() ends: with the records of the feed, or in its catch block
FeedEnds(l, how) ==
    IF how.k = "properties"
    THEN [l EXCEPT !.pc = "done", !.from = "feed", !.feed = "ok",
                   !.properties = FeedAssign(@, how.usable)]
    ELSE [l EXCEPT !.pc = "done", !.from = "mock", !.feed = how.k,
                   !.properties = FeedAssign(@, PropertySlideshow_getMockProperties)]

(***************************************************************************)
(* The proxy of src/server.js: the requests to /api/properties, each with  *)
(* its upstream request and its response.                                  *)
(***************************************************************************)
\* requests that are examined together, and chunks of an upstream body
MaxRequests == 2
MaxChunks == 2
Requests == 1..MaxRequests

\* res of a request: heads and bodies count what was written, thrown tells that a
\* listener ended in ERR_HTTP_HEADERS_SENT
ServerResponse ==
    [statusCode |-> 0, headersSent |-> FALSE, finished |-> FALSE, heads |-> 0,
     bodies |-> 0, thrown |-> FALSE]

\* res.writeHead(statusCode, headers): throws when the headers were sent
writeHead(res, statusCode) ==
    IF res.headersSent THEN [res EXCEPT !.thrown = TRUE]
    ELSE [res EXCEPT !.statusCode = statusCode, !.headersSent = TRUE, !.heads = @ + 1]

\* res.end(data), the statement after writeHead in each listener
end(res) ==
    IF res.thrown \/ res.finished THEN res
    ELSE [res EXCEPT !.finished = TRUE, !.bodies = @ + 1]

\* no request: pc is where the upstream request is, data the chunks received,
\* pendingError whether destroy() has scheduled the error event
NoRequest == [pc |-> "none", data |-> 0, pendingError |-> FALSE, res |-> ServerResponse]

(***************************************************************************)
(* The state.                                                              *)
(***************************************************************************)
VARIABLES
    cache,      \* this.cache: key -> the object stored, [ref, val]
    calls,      \* per caller, the call it has in flight and where it is suspended
    last,       \* the call that completed most recently, in full, until the next starts
    prev,       \* the call that completed before the one in flight or in last, in short
    nextRef,    \* identity of the next object allocated
    overlap,    \* whether the callers start a call while another is in flight
    input,      \* the application of a pure function that is examined
    output,     \* what the function returned
    slideshow,  \* window.slideshow: the fields of the controller, its intervals, the page
    loads,      \* init() (load 0) and the refresh() calls, each where it is suspended
    hidden,     \* document.hidden
    done,       \* the handler that ran last, and currentIndex as it was before it
    curated,    \* the PropertySlideshow of the curated list: its fields, timers and page
    did,        \* what its last step was
    loader,     \* loadProperties() of the curated-list controller, where it is suspended
    proxy       \* the proxy server: per request, its upstream request and its response

vars == <<cache, calls, last, prev, nextRef, overlap>>
\* the variables of the pure functions
pvars == <<input, output>>
\* the variables of the controller
svars == <<slideshow, loads, hidden, done>>
\* the variables of the curated-list controller
cvars == <<curated, did>>
\* the variables of loadProperties() and of the proxy server
xvars == <<loader, proxy>>

\* the callers that may have a call in flight at the same time
Callers == {"a", "b"}

EmptyCache == [key \in {} |-> 0]
NoResult == [ref |-> 0, val |-> NoValue]
NoBody == [k |-> "none", o |-> NoProps, elems |-> <<>>]
UnableToLoad == [k |-> "UnableToLoad", at |-> 0]

\* a caller with no call in flight
Idle ==
    [pc |-> "idle", op |-> "none", options |-> <<>>, id |-> 0, key |-> "",
     attempt |-> 0, lastError |-> NoError, delayMs |-> 0, delays |-> <<>>,
     net |-> 0, oks |-> 0, afterClear |-> FALSE]

\* no call has completed
NoCall ==
    [op |-> "none", options |-> <<>>, id |-> 0, key |-> "", how |-> "none",
     result |-> NoResult, err |-> NoError, caught |-> NoError, body |-> NoBody,
     attempt |-> 0, delays |-> <<>>, net |-> 0, oks |-> 0, afterClear |-> FALSE, cleared |-> FALSE,
     replaced |-> FALSE]

\* what prev keeps of a completed call
Short(call) ==
    [op |-> call.op, options |-> call.options, key |-> call.key, how |-> call.how,
     ref |-> call.result.ref, oks |-> call.oks, array |-> call.body.k = "array"]

InFlight == {c \in Callers : calls[c].pc # "idle"}

\* the repository after its constructor: an empty cache and no call in flight
Constructed ==
    /\ cache = EmptyCache
    /\ calls = [c \in Callers |-> Idle]
    /\ last = NoCall
    /\ prev = Short(NoCall)
    /\ nextRef = 1

\* no pure function is examined
NoSample == input = NoInput /\ output = NoOutput

\* the page has loaded and the controller was constructed: init() has shown the loading
\* indicator, registered the listeners and is suspended at its fetchProperties()
DOMContentLoaded ==
    /\ slideshow = showLoading(Constructor, TRUE)
    /\ loads = [l \in Loads |->
                   IF l = 0 THEN [NoLoad EXCEPT !.pc = "fetch", !.wasPlaying = TRUE,
                                                !.missed = TRUE]
                   ELSE NoLoad]
    /\ hidden = FALSE
    /\ done = NoEvent

\* the page of the curated list has loaded: its controller was constructed, and
\* init() has called loadProperties()
PropertySlideshow_DOMContentLoaded ==
    /\ curated = PropertySlideshow_Constructor
    /\ did = NoStep
    /\ loader = LoadPropertiesCalled

\* server.listen(PORT): no request has come in
Listening == proxy = [r \in Requests |-> NoRequest]

Init ==
    /\ Constructed
    /\ overlap = FALSE
    /\ NoSample
    /\ DOMContentLoaded
    /\ PropertySlideshow_DOMContentLoaded
    /\ Listening

\* the callers overlap their calls, as the controller does with the image fetches:
\* caller b makes the call that caller a has in flight
InitOverlap ==
    /\ Constructed
    /\ overlap = TRUE
    /\ NoSample
    /\ DOMContentLoaded
    /\ PropertySlideshow_DOMContentLoaded
    /\ Listening

\* a set that keeps the entry a key already has
CacheSetIfAbsent(map, key, value) ==
    [k \in DOMAIN map \cup {key} |-> IF k \in DOMAIN map THEN map[k] ELSE value]
\* a set that evicts the entries of the other keys
CacheSetEvicts(map, key, value) == [k \in {key} |-> value]
\* this.cache.set(key, value)
CacheSet(map, key, value) ==
    [k \in DOMAIN map \cup {key} |-> IF k = key THEN value ELSE map[k]]

\* a clear that drops the bulk entries only
CacheClearBulkOnly(map) ==
    [k \in {key \in DOMAIN map : map[key].val.kind # "array"} |-> map[k]]
\* this.cache.clear()
CacheClear(map) == EmptyCache

\* the async function of caller c settles: how is "hit" (returned from the cache),
\* "net" (returned from the response), "mock", "placeholder" or "error" (rejected with
\* err); caught is the error its catch block was entered with and logged; replaced
\* tells that its cache.set found the key already set
Finish(c, call, how, result, err, caught, body) ==
    /\ calls' = [calls EXCEPT ![c] = Idle]
    /\ last' = [op |-> call.op, options |-> call.options, id |-> call.id,
                key |-> call.key, how |-> how, result |-> result, err |-> err,
                caught |-> caught, body |-> body, attempt |-> call.attempt, delays |-> call.delays,
                net |-> call.net, oks |-> call.oks, afterClear |-> call.afterClear,
                cleared |-> FALSE,
                replaced |-> how = "net" /\ call.key \in DOMAIN cache]

\* the first lines of the three operations: the key, the cache lookup and, on a miss,
\* the first fetch of fetchWithRetry
Begin(c, op, options, id, key) ==
    /\ calls[c].pc = "idle"
    /\ IF overlap
       THEN IF c = "a" THEN InFlight = {} ELSE calls["a"].key = key
       ELSE c = "a"
    /\ LET call == [Idle EXCEPT !.op = op, !.options = options, !.id = id,
                                !.key = key, !.afterClear = last.cleared]
       IN IF key \in DOMAIN cache
          THEN /\ Finish(c, call, "hit", cache[key], NoError, NoError, NoBody)
               /\ UNCHANGED <<cache, nextRef, overlap>>
          ELSE /\ nextRef <= MaxObjects
               /\ calls' = [calls EXCEPT ![c] =
                               [call EXCEPT !.pc = "fetch", !.attempt = 1, !.net = 1]]
               /\ last' = NoCall
               /\ UNCHANGED <<cache, nextRef, overlap>>
    /\ prev' = IF last.op = "none" THEN prev ELSE Short(last)

fetchProperties(c, options) ==
    Begin(c, "fetchProperties", options, 0, PropertiesKey(options))

fetchProperty(c, id) == Begin(c, "fetchProperty", <<>>, id, PropertyKey(id))

fetchPropertyImages(c, propertyId) ==
    Begin(c, "fetchPropertyImages", <<>>, propertyId, ImagesKey(propertyId))

\* the catch block of the operation caller c runs, entered with error
Catch(c, call, error, body) ==
    /\ UNCHANGED <<cache, prev, overlap>>
    /\ IF call.op = "fetchProperties"
       THEN IF UsesMockData(call.options)
            THEN /\ Finish(c, call, "mock",
                           [ref |-> nextRef,
                            val |-> [kind |-> "array", items |-> getMockProperties]],
                           NoError, error, body)
                 /\ nextRef' = nextRef + 1
            ELSE /\ Finish(c, call, "error", NoResult, UnableToLoad, error, body)
                 /\ UNCHANGED nextRef
       ELSE IF call.op = "fetchProperty"
            THEN /\ Finish(c, call, "error", NoResult, error, error, body)
                 /\ UNCHANGED nextRef
            ELSE /\ Finish(c, call, "placeholder",
                           [ref |-> nextRef,
                            val |-> [kind |-> "array", items |-> PlaceholderImages]],
                           NoError, error, body)
                 /\ nextRef' = nextRef + 1

\* the fetch of the current attempt of fetchWithRetry settles
FetchSettles(c, outcome) ==
    /\ calls[c].pc = "fetch"
    /\ LET call == calls[c]
           error == [k |-> outcome, at |-> call.attempt]
           failed == [call EXCEPT !.lastError = RecordError(call.lastError, error)]
       IN IF outcome = "ok"
          THEN /\ calls' = [calls EXCEPT ![c] =
                               [call EXCEPT !.pc = "json", !.oks = call.oks + 1]]
               /\ UNCHANGED <<cache, last, prev, nextRef, overlap>>
          ELSE IF HasAttemptsLeft(call.attempt)
               THEN /\ calls' = [calls EXCEPT ![c] =
                                    [failed EXCEPT !.pc = "delay",
                                                   !.delayMs = BackoffDelay(call.attempt)]]
                    /\ UNCHANGED <<cache, last, prev, nextRef, overlap>>
               ELSE Catch(c, failed, failed.lastError, NoBody)

\* the timer of this.delay(ms) fires and the loop starts the next attempt
DelayElapsed(c) ==
    /\ calls[c].pc = "delay"
    /\ calls' = [calls EXCEPT ![c] =
                    [calls[c] EXCEPT !.pc = "fetch", !.attempt = calls[c].attempt + 1,
                                     !.net = calls[c].net + 1,
                                     !.delays = Append(calls[c].delays, calls[c].delayMs),
                                     !.delayMs = 0]]
    /\ UNCHANGED <<cache, last, prev, nextRef, overlap>>

\* the statements of the try block that follow `await response.json()`
Convert(call, body) ==
    IF call.op = "fetchProperty"
    THEN LET normalized == normalizeProperty(TRUE, body)
         IN IF normalized.ok
            THEN Ok([kind |-> "object", items |-> <<normalized.val>>])
            ELSE normalized
    ELSE IF body.k # "array" THEN Throw(TypeError)
         ELSE LET mapped ==
                      IF call.op = "fetchProperties"
                      THEN ArrayMap([i \in DOMAIN body.elems |->
                                        normalizeProperty(FALSE, body.elems[i])])
                      ELSE ArrayMap([i \in DOMAIN body.elems |->
                                        validateImage(body.elems[i], call.id)])
              IN IF mapped.ok THEN Ok([kind |-> "array", items |-> mapped.val])
                 ELSE mapped

\* response.json() settles with the body the origin sent, and the operation goes on
\* to its return or into its catch block
JsonSettles(c, body) ==
    /\ calls[c].pc = "json"
    /\ LET call == calls[c]
           converted == IF body.k = "notjson" THEN Throw(SyntaxError)
                        ELSE Convert(call, body)
           stored == [ref |-> nextRef, val |-> converted.val]
       IN IF converted.ok
          THEN /\ cache' = CacheSet(cache, call.key, stored)
               /\ nextRef' = nextRef + 1
               /\ Finish(c, call, "net", stored, NoError, NoError, body)
               /\ UNCHANGED <<prev, overlap>>
          ELSE Catch(c, call, converted.err, body)

clearCache ==
    /\ cache' = CacheClear(cache)
    /\ last' = IF last.op = "none" THEN last ELSE [last EXCEPT !.cleared = TRUE]
    /\ UNCHANGED <<calls, prev, nextRef, overlap>>

\* the variables the repository leaves alone
others == <<pvars, svars, cvars, xvars>>

Next ==
    \/ \E c \in Callers, options \in OptionsSet :
           fetchProperties(c, options) /\ UNCHANGED others
    \/ \E c \in Callers, id \in Ids : fetchProperty(c, id) /\ UNCHANGED others
    \/ \E c \in Callers, id \in Ids : fetchPropertyImages(c, id) /\ UNCHANGED others
    \/ \E c \in Callers, outcome \in Outcomes : FetchSettles(c, outcome) /\ UNCHANGED others
    \/ \E c \in Callers : DelayElapsed(c) /\ UNCHANGED others
    \/ \E c \in Callers, body \in Bodies : JsonSettles(c, body) /\ UNCHANGED others
    \/ clearCache /\ UNCHANGED others

Spec == Init /\ [][Next]_vars

SpecOverlap == InitOverlap /\ [][Next]_vars

(***************************************************************************)
(* The pure functions applied to one input each.                           *)
(***************************************************************************)
\* formatPrice(price) of the repository and of the curated-list controller
ApplyFormatPrice ==
    /\ input.fn = "formatPrice"
    /\ ~output.done
    /\ output' = [NoOutput EXCEPT !.done = TRUE,
                                  !.price = formatPrice(input.price),
                                  !.other = PropertySlideshow_formatPrice(input.price)]
    /\ UNCHANGED <<input, vars, svars, cvars, xvars>>

\* normalizeProperty(raw), called as a method of the repository
ApplyNormalizeProperty ==
    /\ input.fn = "normalizeProperty"
    /\ ~output.done
    /\ LET normalized == normalizeProperty(TRUE, input.raw).val
       IN output' = [NoOutput EXCEPT !.done = TRUE, !.price = normalized.price,
                                     !.features = normalized.features]
    /\ UNCHANGED <<input, vars, svars, cvars, xvars>>

\* the cache keys fetchProperties computes for two options objects
ApplyCacheKey ==
    /\ input.fn = "cacheKey"
    /\ ~output.done
    /\ output' = [NoOutput EXCEPT !.done = TRUE,
                                  !.keys = <<PropertiesKey(input.options),
                                             PropertiesKey(input.other)>>]
    /\ UNCHANGED <<input, vars, svars, cvars, xvars>>

InitPure ==
    /\ Constructed
    /\ overlap = FALSE
    /\ DOMContentLoaded
    /\ PropertySlideshow_DOMContentLoaded
    /\ Listening
    /\ input \in Inputs
    /\ output = NoOutput

NextPure == ApplyFormatPrice \/ ApplyNormalizeProperty \/ ApplyCacheKey

SpecPure == InitPure /\ [][NextPure]_pvars

(***************************************************************************)
(* The controller as a state machine: one step per event handler, timer    *)
(* callback, public call, and per resumption of a suspended load.          *)
(***************************************************************************)
\* the fetchProperties() call of a load, which finds nothing in the cache
BulkCall == [Idle EXCEPT !.op = "fetchProperties", !.key = PropertiesKey(<<>>)]

\* what that call settles with: the converted answer of the origin, or the value of
\* the catch block of fetchProperties
BulkResults ==
    {[how |-> "net", val |-> Convert(BulkCall, body).val] :
         body \in {b \in Bodies : b.k # "notjson" /\ Convert(BulkCall, b).ok}}
    \cup (IF UsesMockData(BulkCall.options)
          THEN {[how |-> "mock", val |-> [kind |-> "array", items |-> getMockProperties]]}
          ELSE {})

\* a handler runs: the controller becomes after
Handle(op, arg, after) ==
    /\ slideshow' = after
    /\ done' = [op |-> op, arg |-> arg, load |-> NoLoad, from |-> slideshow.currentIndex]
    /\ UNCHANGED <<loads, hidden, vars, pvars, cvars, xvars>>

\* the keydown listener; ArrowUp and ArrowDown, the buttons and a swipe call the same
\* methods as ArrowLeft, ArrowRight and Space
KeyCodes == {"ArrowLeft", "ArrowRight", "Space", "Home", "End", "Escape"}

KeyDown(code) ==
    /\ slideshow.keyboardEnabled
    /\ LET s == slideshow
       IN CASE code = "ArrowLeft" -> Handle("previousSlide", Undef, previousSlide(s))
            [] code = "ArrowRight" -> Handle("nextSlide", Undef, nextSlide(s))
            [] code = "Space" -> Handle("togglePlayPause", Undef, togglePlayPause(s))
            [] code = "Home" -> Handle("Home", Num(0), goToSlide(s, Num(0)))
            [] code = "End" ->
                   Handle("End", Num(Len(s.properties) - 1),
                          goToSlide(s, Num(Len(s.properties) - 1)))
            [] code = "Escape" ->
                   Handle("Escape", Undef, IF s.isPlaying THEN pause(s) ELSE s)

\* the visibilitychange listener; done keeps isPlaying as the listener found it
VisibilityChange ==
    /\ hidden' = ~hidden
    /\ slideshow' = IF hidden' THEN pause(slideshow)
                    ELSE IF slideshow.isPlaying THEN play(slideshow) ELSE slideshow
    /\ done' = [op |-> "visibilitychange", arg |-> Bool(slideshow.isPlaying), load |-> NoLoad,
                from |-> slideshow.currentIndex]
    /\ UNCHANGED <<loads, vars, pvars, cvars, xvars>>

\* time passes, less than the delay of any interval
TimePasses ==
    /\ \E t \in slideshow.intervals : ~t.elapsed
    /\ Handle("time", Undef,
              [slideshow EXCEPT !.intervals = {[t EXCEPT !.elapsed = TRUE] : t \in @}])

\* the callback of an interval runs, autoAdvanceDelay after the interval was set or
\* fired last
IntervalFires(t) ==
    /\ t \in slideshow.intervals
    /\ LET fired == [slideshow EXCEPT
                        !.intervals = (@ \ {t}) \cup {[t EXCEPT !.elapsed = FALSE]}]
       IN Handle("interval", Undef, nextSlide(fired))

\* window.slideshow.goToSlide(index), for an index in or next to the range
GoToSlideCalled(index) ==
    /\ index \in -1..Len(slideshow.properties)
    /\ Handle("goToSlide", Num(index), goToSlide(slideshow, Num(index)))

\* window.slideshow.refresh() up to its first await; the call is load l, the first
\* that is free
refresh(l) ==
    /\ l # 0
    /\ loads[l].pc = "idle"
    /\ \A k \in 1..(l - 1) : loads[k].pc # "idle"
    /\ cache' = CacheClear(cache)
    /\ slideshow' = pause(showLoading(slideshow, TRUE))
    /\ loads' = [loads EXCEPT ![l] =
                    [NoLoad EXCEPT !.pc = "fetch", !.wasPlaying = slideshow.isPlaying,
                                   !.missed = BulkCall.key \notin DOMAIN cache']]
    /\ done' = [op |-> "refresh", arg |-> Num(l), load |-> loads'[l],
                from |-> slideshow.currentIndex]
    /\ UNCHANGED <<calls, last, prev, nextRef, overlap, hidden, pvars, cvars, xvars>>

\* a load is over: init() never runs again, refresh() may be called again
Settled(l, how) == [NoLoad EXCEPT !.pc = IF l = 0 THEN how ELSE "idle"]

\* fetchProperties() of load l settles and the load runs to its next await, or into
\* its catch block when there are no properties
PropertiesSettle(l, result) ==
    /\ loads[l].pc = "fetch"
    /\ cache' = IF result.how = "net"
                THEN CacheSet(cache, BulkCall.key, [ref |-> nextRef, val |-> result.val])
                ELSE cache
    /\ LET items == result.val.items
           assigned == [slideshow EXCEPT
                           !.properties = [i \in DOMAIN items |-> Listing(items[i])]]
       IN IF Len(items) = 0
          THEN /\ loads' = [loads EXCEPT ![l] = Settled(l, "error")]
               /\ done' = [op |-> "load", arg |-> Num(l),
                           load |-> [loads[l] EXCEPT !.pc = "error"],
                           from |-> slideshow.currentIndex]
               /\ slideshow' = showError(assigned)
          ELSE /\ loads' = [loads EXCEPT ![l] = [@ EXCEPT !.pc = "images",
                                                          !.count = Len(items)]]
               /\ done' = [op |-> "properties", arg |-> Num(l), load |-> loads'[l],
                           from |-> slideshow.currentIndex]
               /\ slideshow' = assigned
    /\ UNCHANGED <<calls, last, prev, nextRef, overlap, hidden, pvars, cvars, xvars>>

\* the arrays fetchPropertyImages settles with: the validated images of the origin, or
\* the placeholder of its catch block
ImagesOf(outcome) ==
    CASE outcome = "images" ->
             Convert([Idle EXCEPT !.op = "fetchPropertyImages"], JArray(<<RawImage>>)).val.items
      [] outcome = "placeholder" -> PlaceholderImages
      [] OTHER -> <<>>

\* an assignment that leaves out the listings whose images could not be fetched
AssignImagesDropsFailed(s, count, images) ==
    [s EXCEPT !.properties =
        SelectSeq([i \in DOMAIN @ |-> IF i <= count THEN [@[i] EXCEPT !.images = images[i]]
                                      ELSE @[i]],
                  LAMBDA p : p.images # "placeholder")]
\* this.properties[index].images = images, for every image fetch of the load whose
\* index the properties still have
AssignImages(s, count, images) ==
    [s EXCEPT !.properties =
        [i \in DOMAIN @ |-> IF i <= count THEN [@[i] EXCEPT !.images = images[i]]
                            ELSE @[i]]]

\* the statements of init() after its awaits
initReady(s) ==
    startAutoAdvance(showLoading(
        preloadNextSlide(displaySlide(updateSlideCounter(s), Num(0))), FALSE))

\* the statements of refresh() after its awaits
refreshReady(s) ==
    play(showLoading(
        preloadNextSlide(displaySlide(
            updateSlideCounter([s EXCEPT !.currentIndex = Num(0)]), Num(0))), FALSE))

\* the image fetches of load l have all settled, each with the images of the origin or
\* the placeholder, and the load runs to its end
ImagesSettle(l, images) ==
    /\ loads[l].pc = "images"
    /\ loads' = [loads EXCEPT ![l] = Settled(l, "ready")]
    /\ done' = [op |-> "load", arg |-> Num(l),
                load |-> [loads[l] EXCEPT
                             !.pc = "ready",
                             !.failed = {i \in 1..loads[l].count : images[i] = "placeholder"}],
                from |-> slideshow.currentIndex]
    /\ LET assigned == AssignImages(slideshow, loads[l].count, images)
       IN slideshow' = IF l = 0 THEN initReady(assigned) ELSE refreshReady(assigned)
    /\ UNCHANGED <<vars, hidden, pvars, cvars, xvars>>

NextSlideshow ==
    \/ \E code \in KeyCodes : KeyDown(code)
    \/ VisibilityChange
    \/ TimePasses
    \/ \E t \in slideshow.intervals : IntervalFires(t)
    \/ \E index \in -1..3 : GoToSlideCalled(index)
    \/ \E l \in Loads : refresh(l)
    \/ \E l \in Loads, result \in BulkResults : PropertiesSettle(l, result)
    \/ \E l \in Loads, images \in [1..3 -> ImageOutcomes] : ImagesSettle(l, images)

SpecSlideshow == Init /\ [][NextSlideshow]_svars

(***************************************************************************)
(* The controller and other callers of window.realEstateAPI share the      *)
(* objects the repository returns: the array a fetchProperties() call      *)
(* returned is the array the controller keeps as this.properties, and, on  *)
(* the success path and on a hit, the array in the cache.                  *)
(***************************************************************************)
\* this.properties = await window.realEstateAPI.fetchProperties(): the controller keeps
\* the array the completed call returned
PropertiesAssigned ==
    /\ last.op = "fetchProperties"
    /\ last.how \in {"hit", "net", "mock"}
    /\ slideshow' = [slideshow EXCEPT
                        !.properties = [i \in DOMAIN last.result.val.items |->
                                           Listing(last.result.val.items[i])]]
    /\ done' = [op |-> "properties", arg |-> Num(last.result.ref), load |-> NoLoad,
                from |-> slideshow.currentIndex]
    /\ UNCHANGED <<vars, loads, hidden, pvars, cvars, xvars>>

\* the object obj after this.properties[index].images = images for each of its items
WithImages(obj, images) ==
    [obj EXCEPT !.val.items =
        [i \in DOMAIN @ |-> [@[i] EXCEPT !.images = ImagesOf(images[i])]]]

\* preloadPropertyImages(): the image fetches settle and each listing of the array the
\* controller keeps gets its images; the array in the cache is the same object when it
\* has the same identity
preloadPropertyImages(images) ==
    /\ done.op = "properties"
    /\ Len(slideshow.properties) > 0
    /\ slideshow' = AssignImages(slideshow, Len(slideshow.properties), images)
    /\ cache' = [k \in DOMAIN cache |->
                    IF cache[k].ref = done.arg.n THEN WithImages(cache[k], images)
                    ELSE cache[k]]
    /\ done' = [done EXCEPT !.op = "images"]
    /\ UNCHANGED <<calls, last, prev, nextRef, overlap, loads, hidden, pvars, cvars, xvars>>

NextShared ==
    \/ Next
    \/ PropertiesAssigned
    \/ \E outcome \in ImageOutcomes : preloadPropertyImages([i \in 1..3 |-> outcome])

SpecShared == Init /\ [][NextShared]_<<vars, svars>>

(***************************************************************************)
(* The curated-list controller as a state machine: one step per settled    *)
(* load, event handler and timer callback, and one for the passing of time.*)
(***************************************************************************)
\* the delays of the timers, and the step in which time passes: the shortest of them
Delays == {slideInterval, DefaultDisplayTime, LongDisplayTime}
TimeStep == CHOOSE d \in Delays : \A e \in Delays : d <= e
\* shownFor is not counted further once it is beyond the longest delay
Longest == CHOOSE d \in Delays : \A e \in Delays : d >= e

\* a step of the curated-list controller
Step(op, kind, after) ==
    /\ curated' = after
    /\ did' = [op |-> op, kind |-> kind]
    /\ UNCHANGED <<vars, pvars, svars, xvars>>

\* the slide that after shows was put on the page by who
ShownBy(who, after) ==
    IF HasIndex(after.properties, after.currentIndex) THEN [after EXCEPT !.view.by = who]
    ELSE after

\* loadProperties() has gone through the curated list: with list, or with nothing to
\* show (the list could not be fetched or read, or no item of it could be loaded), in
\* which case it goes on to loadFromAPI()
ListSettles(list) ==
    /\ curated.pc = "list"
    /\ Step("load", "list",
            IF Len(list) > 0 THEN PropertySlideshow_init([curated EXCEPT !.properties = list])
            ELSE [curated EXCEPT !.pc = "api"])

\* loadFromAPI() settles and init() runs to its end
ApiSettles(result) ==
    /\ curated.pc = "api"
    /\ Step("load", "api", PropertySlideshow_init([curated EXCEPT !.properties = result]))

\* handleKeyPress(e); the buttons, a swipe and a click on the image call the same methods
Keys == {"ArrowLeft", "ArrowRight", " ", "Home", "End"}

handleKeyPress(key) ==
    /\ curated.listening
    /\ key # " " => Len(curated.timers) < MaxTimers
    /\ LET s == curated
       IN CASE key = "ArrowLeft" ->
                   Step("previousSlide", "user",
                        ShownBy("user", PropertySlideshow_previousSlide(s)))
            [] key = "ArrowRight" ->
                   Step("nextSlide", "user", ShownBy("user", PropertySlideshow_nextSlide(s)))
            [] key = " " -> Step("togglePlayPause", "user", PropertySlideshow_togglePlayPause(s))
            [] key = "Home" ->
                   Step("Home", "user", ShownBy("user", PropertySlideshow_goToSlide(s, Num(0))))
            [] key = "End" ->
                   Step("End", "user",
                        ShownBy("user", PropertySlideshow_goToSlide(
                                            s, Num(Len(s.properties) - 1))))

\* handleVisibilityChange(); did keeps isPlaying as the handler found it
handleVisibilityChange ==
    /\ curated.listening
    /\ LET turned == [curated EXCEPT !.hidden = ~@]
       IN Step("visibilitychange", IF curated.isPlaying THEN "playing" ELSE "paused",
               IF turned.hidden THEN PropertySlideshow_pauseSlideshow(turned)
               ELSE PropertySlideshow_resumeSlideshow(turned))

\* TimeStep passes while no timer is due
Tick ==
    /\ curated.pc \in {"ready", "error"}
    /\ \A i \in DOMAIN curated.timers : curated.timers[i].left >= TimeStep
    /\ Step("time", "none",
            [curated EXCEPT
                !.timers = [i \in DOMAIN @ |-> [@[i] EXCEPT !.left = @ - TimeStep]],
                !.view.shownFor = IF @ > Longest THEN @ ELSE @ + TimeStep])

\* the timer that is due and was set first fires: an interval is set again and calls
\* nextSlide(), the timeout of a message calls nextSlide() if isPlaying
TimerFires ==
    /\ \E i \in DOMAIN curated.timers : curated.timers[i].left = 0
    /\ LET i == CHOOSE k \in DOMAIN curated.timers :
                    /\ curated.timers[k].left = 0
                    /\ \A j \in 1..(k - 1) : curated.timers[j].left # 0
           t == curated.timers[i]
           rest == SelectSeq(curated.timers, LAMBDA u : u.id # t.id)
           fired == [curated EXCEPT
                        !.timers = IF t.kind = "interval"
                                   THEN Append(rest, [t EXCEPT !.left = slideInterval])
                                   ELSE rest]
       IN IF t.kind = "interval" \/ fired.isPlaying
          THEN Step("advance", t.kind, ShownBy("timer", PropertySlideshow_nextSlide(fired)))
          ELSE Step("skipped", t.kind, fired)

NextPropertySlideshow ==
    \/ \E list \in CuratedLists \cup {<<>>} : ListSettles(list)
    \/ \E result \in FeedResults : ApiSettles(result)
    \/ \E key \in Keys : handleKeyPress(key)
    \/ handleVisibilityChange
    \/ Tick
    \/ TimerFires

SpecPropertySlideshow == Init /\ [][NextPropertySlideshow]_cvars

(***************************************************************************)
(* Properties of the repository.                                           *)
(***************************************************************************)
BulkDone == last.op = "fetchProperties"
SingleDone == last.op = "fetchProperty"
ImagesDone == last.op = "fetchPropertyImages"
\* the completed call made all its attempts and none of them was answered with 2xx
Exhausted == last.how # "hit" /\ last.net = 3 /\ last.oks = 0
\* the completed call had fallback disabled: options.useMockData === false
FallbackDisabled == Prop(last.options, "useMockData") = Bool(FALSE)
\* every element of the array the origin sent is a JSON object
AllRecords(body) == \A i \in DOMAIN body.elems : body.elems[i].k = "object"

\* C1: when the origin answers the bulk GET with a 2xx JSON array of raw records,
\* fetchProperties returns exactly one normalized listing per raw record, in the same
\* order, and has stored that result under the cache key; the answer
\* [{id: 1, price: 0, bedrooms: "3"}] yields price 'Price on request' and bedrooms 3.
C1_BulkReturnsNormalizedRecords ==
    (BulkDone /\ last.body.k = "array" /\ AllRecords(last.body) /\ ~last.cleared) =>
        /\ last.how = "net"
        /\ Len(last.result.val.items) = Len(last.body.elems)
        /\ \A i \in DOMAIN last.body.elems :
               last.result.val.items[i] = normalizeProperty(TRUE, last.body.elems[i]).val
        /\ last.body.elems = <<RawListing>> =>
               /\ last.result.val.items[1].price = Str("Price on request")
               /\ last.result.val.items[1].features.bedrooms = Num(3)
        /\ last.key \in DOMAIN cache
        /\ cache[last.key] = last.result

\* C2: two fetchProperties calls with identical options and no clearCache() between
\* them, the first answered with a 2xx JSON array: the second returns the same object
\* without network access, and the two cause exactly one successful request.
C2_SecondCallIsCacheHit ==
    (/\ BulkDone
     /\ prev.op = "fetchProperties"
     /\ prev.options = last.options
     /\ prev.array
     /\ ~last.afterClear) =>
        /\ last.how = "hit"
        /\ last.result.ref = prev.ref
        /\ last.net = 0
        /\ prev.oks + last.oks = 1

\* an exhausted bulk fetch with fallback permitted has returned the sample data and its
\* key is not in the cache; the bulk fetch that follows one with the same options is
\* not served from the cache
C3_FallbackState ==
    /\ (BulkDone /\ Exhausted /\ ~FallbackDisabled) =>
           /\ last.how = "mock"
           /\ last.result.val.kind = "array"
           /\ Len(last.result.val.items) >= 1
           /\ \A i \in DOMAIN last.result.val.items :
                  last.result.val.items[i].id = Num(i)
           /\ last.key \notin DOMAIN cache
    /\ (/\ BulkDone
        /\ prev.op = "fetchProperties"
        /\ prev.options = last.options
        /\ prev.how = "mock"
        /\ prev.oks = 0) =>
           /\ last.how # "hit"
           /\ last.net >= 1

\* the step in which an exhausted bulk fetch returns the sample data
C3_FallbackStep ==
    (/\ \E c \in Callers : calls[c].pc # "idle" /\ calls'[c].pc = "idle"
     /\ last'.op = "fetchProperties"
     /\ last'.how = "mock"
     /\ last'.net = 3
     /\ last'.oks = 0) => cache' = cache

\* C3: when all 3 attempts of a bulk fetch fail and the fallback is not disabled,
\* fetchProperties returns the built-in sample sequence, which has at least one
\* listing, and writes nothing to the cache; the next fetchProperties call with the same
\* options performs network requests again.
C3_FallbackNotCached == []C3_FallbackState /\ [][C3_FallbackStep]_vars

\* a bulk fetch fell back to the sample data after 3 failed attempts, and the next call
\* with the same options went to the network
C3_Witness ==
    /\ BulkDone
    /\ prev.op = "fetchProperties"
    /\ prev.options = last.options
    /\ prev.how = "mock"
    /\ prev.oks = 0
    /\ last.net >= 1

\* C4: fetchWithRetry makes at least 1 and at most 3 network attempts per call; a
\* non-2xx status and a transport failure each count as one failed attempt; the first
\* 2xx response ends the loop with that response; no attempt follows a success or the
\* third failure.
C4_AttemptsBounded ==
    /\ \A c \in InFlight :
           /\ calls[c].attempt \in 1..3
           /\ calls[c].net = calls[c].attempt
           /\ calls[c].oks = IF calls[c].pc = "json" THEN 1 ELSE 0
           /\ calls[c].pc = "delay" =>
                  /\ calls[c].attempt < 3
                  /\ calls[c].lastError.k \in {"network", "http"}
                  /\ calls[c].lastError.at = calls[c].attempt
           /\ (calls[c].pc = "fetch" /\ calls[c].attempt > 1) =>
                  calls[c].lastError.at = calls[c].attempt - 1
    /\ (last.op # "none" /\ last.how # "hit") =>
           /\ last.net \in 1..3
           /\ last.oks \in 0..1
           /\ last.oks = 0 => last.net = 3
           /\ last.oks = 1 => last.body.k # "none"
           /\ last.oks = 0 => last.body.k = "none"

\* a call ended after its third failed attempt, a non-2xx status
C4_WitnessExhausted == Exhausted /\ last.caught.k = "http"

\* C5: attempt n (n = 2, 3) starts only after a delay of 1000 x (n-1) ms following the
\* failure of attempt n-1, no delay follows the third failed attempt, and a call whose 3
\* attempts all fail spends exactly 3000 ms in backoff delays.
C5_LinearBackoff ==
    /\ \A c \in InFlight :
           /\ calls[c].pc = "delay" => calls[c].delayMs = 1000 * calls[c].attempt
           /\ calls[c].pc # "delay" => calls[c].delayMs = 0
           /\ Len(calls[c].delays) = calls[c].attempt - 1
           /\ \A n \in 2..calls[c].attempt : calls[c].delays[n - 1] = 1000 * (n - 1)
    /\ Exhausted =>
           /\ last.delays = <<1000, 2000>>
           /\ last.delays[1] + last.delays[2] = 3000

\* a bulk fetch delivered the fallback data after three failed attempts
C5_WitnessExhausted == BulkDone /\ Exhausted /\ last.how = "mock"

\* C6: when all 3 attempts of fetchWithRetry fail, the call fails with the error of the
\* third attempt, not of an earlier attempt and not with an empty result.
C6_LastErrorSurfaced ==
    Exhausted =>
        /\ last.caught.at = 3
        /\ last.caught.k \in {"network", "http"}
        /\ SingleDone => (last.how = "error" /\ last.err = last.caught)

\* fetchProperty failed after three failed attempts
C6_Witness == SingleDone /\ Exhausted /\ last.how = "error"

\* the body is not an array of JSON objects
MalformedBulk(body) == body.k # "none" /\ (body.k # "array" \/ ~AllRecords(body))

\* a bulk fetch with fallback disabled that was exhausted or read a malformed response
\* has failed with the error of fetchProperties
C7_NoFallbackState ==
    (BulkDone /\ FallbackDisabled /\ (Exhausted \/ MalformedBulk(last.body))) =>
        /\ last.how = "error"
        /\ last.err = UnableToLoad
        /\ last.result = NoResult

\* a step of a bulk fetch with fallback disabled that does not return network data
C7_NoFallbackStep ==
    \A c \in Callers :
        (/\ calls[c].op = "fetchProperties"
         /\ Prop(calls[c].options, "useMockData") = Bool(FALSE)
         /\ calls'[c] # calls[c]
         /\ last'.how # "net") => cache' = cache

\* C7: with fallback disabled (options.useMockData === false), a bulk fetch whose
\* attempts are exhausted or whose response is malformed fails with an error instead of
\* returning sample data, and leaves the cache as it was before the call.
C7_NoFallbackFails == []C7_NoFallbackState /\ [][C7_NoFallbackStep]_vars

\* a bulk fetch with fallback disabled failed on a malformed response
C7_Witness ==
    BulkDone /\ FallbackDisabled /\ MalformedBulk(last.body) /\ last.how = "error"

\* the body is not a JSON object
MalformedSingle(body) == body.k \in {"notjson", "null", "scalar", "array"}

\* C8: fetchProperty never substitutes sample data; when its attempts are exhausted or
\* the response is malformed it fails with an error and caches nothing; when it succeeds
\* it stores the normalized listing under a key of the id alone, and later calls for
\* the same id return that cached object without network access.
C8_SingleFailsOrCaches ==
    /\ SingleDone =>
           /\ last.how \in {"hit", "net", "error"}
           /\ last.key = "property_" \o ToString(last.id)
           /\ (Exhausted \/ MalformedSingle(last.body)) =>
                  (last.how = "error" /\ last.key \notin DOMAIN cache)
           /\ (last.how = "net" /\ ~last.cleared) =>
                  (last.key \in DOMAIN cache /\ cache[last.key] = last.result)
    /\ (/\ SingleDone
        /\ prev.op = "fetchProperty"
        /\ prev.key = last.key
        /\ prev.how \in {"net", "hit"}
        /\ ~last.afterClear) =>
           (last.how = "hit" /\ last.result.ref = prev.ref /\ last.net = 0)

\* the element is not a JSON object that names a url
MalformedImage(e) == e.k # "object" \/ ~Truthy(Get(e, "url"))

\* the image fetch failed: no 2xx answer, or a body that is not JSON, not an array, or
\* an array with a malformed element
ImagesFailed ==
    \/ Exhausted
    \/ last.body.k \in {"notjson", "null", "scalar", "object"}
    \/ \E i \in DOMAIN last.body.elems : MalformedImage(last.body.elems[i])

\* C9: fetchPropertyImages never fails: for every outcome of the network it returns a
\* sequence, and on any failure that sequence has exactly one element whose url and
\* thumbnail are the built-in placeholder image.
C9_ImagesNeverFail ==
    ImagesDone =>
        /\ last.how # "error"
        /\ last.result.val.kind = "array"
        /\ (last.how # "hit" /\ ImagesFailed) =>
               /\ Len(last.result.val.items) = 1
               /\ last.result.val.items[1].url = getPlaceholderImage
               /\ last.result.val.items[1].thumbnail = getPlaceholderImage

\* C10: clearCache() removes every cache entry, so that the first fetchProperties call
\* after it with previously cached options goes to the network again (one successful
\* request when the origin answers) instead of returning the old object.
C10_ClearCacheEmpties ==
    /\ last.cleared => DOMAIN cache = {}
    /\ (/\ BulkDone
        /\ prev.op = "fetchProperties"
        /\ prev.options = last.options
        /\ prev.how \in {"net", "hit"}
        /\ last.afterClear) =>
           /\ last.how # "hit"
           /\ last.net >= 1
           /\ last.oks = IF last.net = 3 /\ last.body.k = "none" THEN 0 ELSE 1
           /\ last.result.ref # prev.ref

\* a bulk fetch with cached options was cleared from the cache and fetched again
C10_Witness ==
    /\ BulkDone
    /\ prev.op = "fetchProperties"
    /\ prev.options = last.options
    /\ prev.how \in {"net", "hit"}
    /\ last.afterClear
    /\ last.how = "net"
    /\ last.oks = 1

(***************************************************************************)
(* Properties of the pure functions, under SpecPure.                       *)
(***************************************************************************)
\* the two options objects have the same fields with the same values
SameFields(o1, o2) == {o1[i] : i \in DOMAIN o1} = {o2[i] : i \in DOMAIN o2}

\* C11: the cache key of fetchProperties depends only on the set of option names and
\* their values, not on the order the fields were written in: two options objects with
\* the same fields in different insertion order produce the same key, so a result
\* stored under the key of the first is found under the key of the second.
C11_KeyIgnoresFieldOrder ==
    (output.done /\ input.fn = "cacheKey" /\ SameFields(input.options, input.other)) =>
        /\ output.keys[1] = output.keys[2]
        /\ output.keys[2] \in DOMAIN CacheSet(EmptyCache, output.keys[1], NoResult)

\* the raw price is missing, zero or not a number
NoPrice(v) ==
    v \in {Undef, Null, NaN, Num(0), Str(""), Str(" "), Str("0"), Str("abc"),
           Bool(TRUE), Bool(FALSE)}

\* C12: for every raw price that is missing, zero (0 or a string denoting zero) or
\* non-numeric ("abc", NaN, a whitespace-only string, a boolean), formatPrice and the
\* price of the normalized listing are exactly 'Price on request', in the repository
\* and in the curated-list controller.
C12_PriceOnRequest ==
    /\ (output.done /\ input.fn = "formatPrice" /\ NoPrice(input.price)) =>
           /\ output.price = Str("Price on request")
           /\ output.other = Str("Price on request")
    /\ (output.done /\ input.fn = "normalizeProperty") =>
           output.price = Str("Price on request")

\* the value of the first key of the feature that the raw record has
FirstPresent(in) ==
    IF in.key.first \in DOMAIN in.raw.o THEN in.raw.o[in.key.first]
    ELSE Get(in.raw, in.key.second)

\* C13: each numeric feature of the normalized listing (bedrooms, bathrooms, area,
\* yearBuilt, garage) is a number >= 0 (never NaN, never negative), taken from the first
\* present alternate key, and 0 when the source value is missing or is not a number.
C13_FeaturesAreNumbers ==
    (output.done /\ input.fn = "normalizeProperty") =>
        /\ \A f \in {"bedrooms", "bathrooms", "area", "yearBuilt", "garage"} :
               /\ output.features[f].t = "number"
               /\ output.features[f].s # "NaN"
               /\ output.features[f].n >= 0
        /\ FirstPresent(input) \in {Undef, Null, Num(0), Str(""), Str("abc")} =>
               output.features[input.key.feature] = Num(0)
        /\ FirstPresent(input) \in {Num(3), Str("3")} =>
               output.features[input.key.feature] = Num(3)

(***************************************************************************)
(* Properties of the playback controller, under SpecSlideshow.             *)
(***************************************************************************)
\* the number of properties, and currentIndex as a position among them
L == Len(slideshow.properties)
AtSlide == HasIndex(slideshow.properties, slideshow.currentIndex)
\* the handler of this step is one of ops
Handled(ops) == done'.op \in ops /\ svars' # svars

\* C14: in every reachable state of the controller, also while init() or refresh() is
\* suspended at an await and events or timer ticks are interleaved, currentIndex is a
\* position of the properties: 0 <= currentIndex < properties.length when there are
\* properties, and never NaN or negative.
C14_IndexInRange ==
    /\ slideshow.currentIndex.s # "NaN"
    /\ slideshow.currentIndex.n >= 0
    /\ L > 0 => slideshow.currentIndex.n < L

\* previousSlide() would undo nextSlide() from the current slide
C15_RoundTrip ==
    (L >= 2 /\ AtSlide) =>
        /\ prevIndex([slideshow EXCEPT !.currentIndex = nextIndex(slideshow)])
               = slideshow.currentIndex
        /\ nextIndex([slideshow EXCEPT !.currentIndex = prevIndex(slideshow)])
               = slideshow.currentIndex
        /\ PropertySlideshow_nextIndex(slideshow) = Num((slideshow.currentIndex.n + 1) % L)
        /\ PropertySlideshow_prevIndex(slideshow)
               = Num((slideshow.currentIndex.n + L - 1) % L)

\* a nextSlide() or previousSlide() call from a slide of two or more
C15_WrapStep ==
    (L >= 2 /\ AtSlide) =>
        /\ Handled({"nextSlide"}) =>
               slideshow'.currentIndex = Num((slideshow.currentIndex.n + 1) % L)
        /\ Handled({"previousSlide"}) =>
               slideshow'.currentIndex = Num((slideshow.currentIndex.n + L - 1) % L)

\* C15: for L >= 2 properties nextSlide() moves currentIndex from i to (i+1) mod L and
\* previousSlide() from i to (i-1) mod L: nextSlide() at L-1 goes to 0, previousSlide()
\* at 0 goes to L-1, and previousSlide() after nextSlide() returns to the start.
C15_NextPreviousWrap == []C15_RoundTrip /\ [][C15_WrapStep]_svars

\* nextSlide() went from the last slide to the first
C15_Witness ==
    /\ done.op = "nextSlide"
    /\ L = 3
    /\ done.from = Num(2)
    /\ slideshow.currentIndex = Num(0)
    /\ slideshow.view.slide = slideshow.properties[1].id

\* a navigation handler that runs while there are no properties
C16_EmptyStep ==
    (L = 0 /\ Handled({"nextSlide", "previousSlide", "Home", "End"})) =>
        slideshow' = slideshow

\* C16: while the properties are empty (loading before the first fetch resolves, or in
\* Error) nextSlide(), previousSlide() and the Home and End keys change nothing:
\* currentIndex stays, nothing is rendered, no auto-advance timer is started.
C16_EmptyIsNoOp == [][C16_EmptyStep]_svars

\* the page shows the slide, the counter and the progress of currentIndex
Rendered(s) ==
    /\ HasIndex(s.properties, s.currentIndex)
    /\ s.view.slide = s.properties[s.currentIndex.n + 1].id
    /\ s.view.counter = <<Num(s.currentIndex.n + 1), Len(s.properties)>>
    /\ s.view.progress = <<Num(s.currentIndex.n + 1), Len(s.properties)>>

\* a navigation call: dropped whole during a transition, else one transition that
\* ends with the page showing the slide of the new index
C17_Step ==
    /\ (slideshow.isLoading
        /\ Handled({"nextSlide", "previousSlide", "Home", "End", "goToSlide", "interval"}))
           => slideshow' = slideshow
    /\ (AtSlide /\ L >= 2 /\ Handled({"nextSlide", "interval"})) =>
           /\ slideshow'.currentIndex = Num((slideshow.currentIndex.n + 1) % L)
           /\ Rendered(slideshow')
    /\ (AtSlide /\ L >= 2 /\ Handled({"previousSlide"})) =>
           /\ slideshow'.currentIndex = Num((slideshow.currentIndex.n + L - 1) % L)
           /\ Rendered(slideshow')
    /\ (AtSlide /\ Handled({"Home", "End", "goToSlide"})
        /\ done'.arg.n \in 0..(L - 1)
        /\ done'.arg # slideshow.currentIndex) =>
           /\ slideshow'.currentIndex = done'.arg
           /\ Rendered(slideshow')

\* C17: slide transitions are strictly sequential: a navigation call that arrives
\* during a transition (isLoading true) changes nothing, each accepted call makes
\* exactly one transition (nextSlide() moves the index by one position mod L), and no
\* handler starts while a transition is open, so no render is interleaved with another.
C17_TransitionsSequential == [](~slideshow.isLoading) /\ [][C17_Step]_svars

\* nextSlide() was accepted and moved the index by one position
C17_Witness ==
    /\ done.op = "nextSlide"
    /\ L = 3
    /\ done.from = Num(0)
    /\ slideshow.currentIndex = Num(1)
    /\ Rendered(slideshow)

\* goToSlide(index) with an index out of range
C18_OutOfRangeStep ==
    (Handled({"goToSlide"}) /\ (done'.arg.n < 0 \/ done'.arg.n >= L)) =>
        slideshow' = slideshow

\* C18: goToSlide(index) with index < 0 or index >= properties.length changes nothing:
\* currentIndex, the rendered slide, progress and counter and the pending auto-advance
\* timer, with the time left until its next tick, are as before the call.
C18_OutOfRangeIsNoOp == [][C18_OutOfRangeStep]_svars

\* the step in which init() ends
C19_InitEnds ==
    /\ (loads[0].pc = "fetch" /\ loads'[0].pc = "error") =>
           /\ Len(slideshow'.properties) = 0
           /\ slideshow'.view.error
           /\ ~slideshow'.view.loading
           /\ slideshow'.intervals = slideshow.intervals
           /\ slideshow'.autoAdvanceInterval = slideshow.autoAdvanceInterval
    /\ (loads[0].pc = "images" /\ loads'[0].pc = "ready") =>
           /\ loads[0].count > 0
           /\ slideshow'.currentIndex = Num(0)
           /\ Rendered(slideshow')
           /\ ~slideshow'.view.loading
           /\ slideshow'.isPlaying =>
                  /\ Cardinality(slideshow'.intervals) = 1
                  /\ \E t \in slideshow'.intervals : t.id = slideshow'.autoAdvanceInterval
           /\ ~slideshow'.isPlaying => slideshow'.intervals = slideshow.intervals

\* C19: init(): when the fetched sequence is empty the controller ends in Error
\* (showError is called, the loading indicator is hidden) and init starts no timer; when
\* it is not empty init ends with slide 0 displayed (currentIndex = 0) and, if isPlaying
\* is still true, exactly one auto-advance timer pending.
C19_InitOutcome == [][C19_InitEnds]_svars

\* C20: after a refresh() that completes successfully the repository cache was cleared
\* before the re-fetch, currentIndex is 0, and the play state is the one at the moment
\* refresh() was called: playing again with one timer if it was playing, still paused
\* with no timer if it was paused.
C20_RefreshRestoresPlayState ==
    (done.op = "load" /\ done.arg # Num(0) /\ done.load.pc = "ready") =>
        /\ done.load.missed
        /\ slideshow.currentIndex = Num(0)
        /\ slideshow.isPlaying = done.load.wasPlaying
        /\ Cardinality(slideshow.intervals) = IF done.load.wasPlaying THEN 1 ELSE 0

\* the controller shows the error message over no properties
InError == slideshow.view.error /\ ~slideshow.view.loading /\ L = 0
\* what the user can do
UserInput ==
    {"togglePlayPause", "nextSlide", "previousSlide", "Home", "End", "Escape",
     "visibilitychange"}

\* the error message appears in the catch block of a load that got no listings
C21_EntersError ==
    (~slideshow.view.error /\ slideshow'.view.error) =>
        /\ done'.op = "load"
        /\ done'.load.pc = "error"
        /\ Len(slideshow'.properties) = 0

\* user input while in Error
C21_ErrorStep ==
    (InError /\ Handled(UserInput)) =>
        /\ slideshow'.currentIndex = slideshow.currentIndex
        /\ slideshow'.intervals = {}

\* C21: Error is entered only from a load (init() or refresh()) that obtained no
\* listings, and while the controller is in Error auto-advance is halted: no auto-advance
\* timer is pending and no user input (play, togglePlayPause, next, previous, Home, End,
\* tab visibility) changes currentIndex or starts a timer.
C21_ErrorHaltsAutoAdvance ==
    /\ [](InError => slideshow.intervals = {})
    /\ [][C21_EntersError /\ C21_ErrorStep]_svars

\* C23: after any sequence of play(), pause(), togglePlayPause(), navigation, visibility
\* changes, init() and refresh() at most one auto-advance interval is active, and it is
\* the one whose handle the controller holds: every start cancels the previous interval
\* in the same step.
C23_OneInterval ==
    /\ Cardinality(slideshow.intervals) <= 1
    /\ \A t \in slideshow.intervals : t.id = slideshow.autoAdvanceInterval
    /\ slideshow.intervals = {} => slideshow.autoAdvanceInterval = 0

\* playing was resumed and a slide was shown by hand: one interval runs
C23_Witness ==
    /\ done.op = "nextSlide"
    /\ L = 3
    /\ done.from = Num(1)
    /\ slideshow.isPlaying
    /\ hidden = FALSE
    /\ Cardinality(slideshow.intervals) = 1

\* the handlers of manual navigation
Navigation == {"nextSlide", "previousSlide", "Home", "End", "goToSlide"}

\* a manual navigation
C24_Step ==
    /\ (slideshow.isPlaying /\ Handled(Navigation)
        /\ slideshow'.currentIndex # slideshow.currentIndex) =>
           slideshow'.intervals =
               {[id |-> slideshow'.autoAdvanceInterval, elapsed |-> FALSE]}
    /\ (~slideshow.isPlaying /\ Handled(Navigation)) =>
           /\ slideshow'.intervals = {}
           /\ ~slideshow'.isPlaying

\* C24: while playing, every manual navigation that changes the slide cancels the
\* running interval and starts a new one, so that the next automatic advance comes a
\* full delay after the navigation; while paused, a manual navigation starts no timer.
C24_NavigationResetsTimer == [][C24_Step]_svars

\* the slide was changed by hand some time into the interval, and the interval that
\* runs now has its full delay ahead
C24_Witness ==
    /\ done.op = "previousSlide"
    /\ L = 3
    /\ done.from = Num(0)
    /\ slideshow.currentIndex = Num(2)
    /\ slideshow.isPlaying
    /\ slideshow.intervals = {[id |-> slideshow.autoAdvanceInterval, elapsed |-> FALSE]}

\* the step in which the image fetches of a load have settled
C26_ImagesStep ==
    \A l \in Loads :
        (loads[l].pc = "images" /\ done'.op = "load" /\ done'.arg = Num(l)
         /\ svars' # svars) =>
            /\ done'.load.pc = "ready"
            /\ ~slideshow'.view.loading
            /\ slideshow'.view.error = slideshow.view.error
            /\ Len(slideshow'.properties) = Len(slideshow.properties)
            /\ \A i \in DOMAIN slideshow.properties :
                   /\ slideshow'.properties[i].id = slideshow.properties[i].id
                   /\ i \in done'.load.failed =>
                          /\ ImagesOf(slideshow'.properties[i].images) = PlaceholderImages
                          /\ Len(ImagesOf(slideshow'.properties[i].images)) = 1

C28_StaleStep ==
    (done'.op \in {"load", "properties"} /\ done'.arg = Num(0) /\ svars' # svars
     /\ \E k \in Loads \ {0} : loads[k].pc # "idle") =>
        slideshow' = slideshow

\* C28: a stale load never overwrites a newer one: when refresh() is called while
\* init() is in flight, the answers to init() that arrive afterwards are discarded, so
\* that properties, currentIndex and the play state are those the refresh() installs.
C28_StaleLoadDiscarded == [][C28_StaleStep]_svars

(***************************************************************************)
(* Further properties of the repository, under Spec.                       *)
(***************************************************************************)
\* the completed call got a 2xx answer whose body is not JSON or has the wrong shape:
\* not an array for the bulk GET, null for a single listing
MalformedAnswer ==
    /\ last.how # "hit"
    /\ \/ last.body.k = "notjson"
       \/ BulkDone /\ last.body.k \in {"null", "scalar", "object"}
       \/ SingleDone /\ last.body.k = "null"

\* C29: a malformed response (2xx, body not valid JSON or JSON of the wrong shape)
\* counts as a failed attempt of the retry loop: the request is made 3 times, with the
\* backoff delays in between, before fetchProperties falls back to the sample data or
\* fetchProperty fails.
C29_MalformedIsRetried ==
    ((BulkDone \/ SingleDone) /\ MalformedAnswer) =>
        /\ last.how \in {"mock", "error"}
        /\ last.net = retryAttempts
        /\ last.delays = <<BackoffDelay(1), BackoffDelay(2)>>

(***************************************************************************)
(* Properties of the curated-list controller, under SpecPropertySlideshow. *)
(***************************************************************************)
\* the page shows a slide of the properties
OnSlide == HasIndex(curated.properties, curated.currentIndex)
\* the time the slide on the page is to be shown: displayTime of a message, else the
\* regular interval
Due ==
    LET property == curated.properties[curated.currentIndex.n + 1]
    IN IF property.kind = "message" THEN property.displayTime ELSE slideInterval

\* init() is over: the controller has properties, or shows the error with no timer
C22_State ==
    /\ curated.timers # <<>> => Len(curated.properties) > 0
    /\ curated.pc \in {"ready", "error"} =>
           \/ Len(curated.properties) > 0 /\ ~curated.view.error
           \/ curated.view.error /\ curated.timers = <<>>

\* a navigation call is made over properties
C22_Step ==
    (did'.op \in {"nextSlide", "previousSlide", "Home", "End", "advance"}
     /\ cvars' # cvars) =>
        Len(curated.properties) > 0

\* C22: whenever the controller is running (a timer is pending or a navigation call is
\* made) its properties are not empty: whatever the origin does, also when the feed
\* yields no usable listing, the controller ends up playing listings or the sample
\* data, or in Error with nothing scheduled.
C22_NeverRunsEmpty == []C22_State /\ [][C22_Step]_cvars

\* an automatic advance from a slide that was shown without a pause since
C25_Step ==
    (did'.op = "advance" /\ OnSlide /\ curated.view.clean) =>
        curated.view.shownFor = Due

\* C25: while playing, a Message slide with display time d is followed by exactly one
\* automatic advance, d after it was shown, for every d (also d longer than the regular
\* interval), and the slide that follows is shown for the regular 8000 ms: no slide is
\* left earlier or later than its time.
C25_MessageShownForItsTime ==
    /\ [](curated.pc = "ready" /\ OnSlide /\ curated.isPlaying /\ curated.view.clean
          => curated.view.shownFor <= Due)
    /\ [][C25_Step]_cvars

\* an automatic advance
C27_Step ==
    /\ (did'.op = "advance" /\ OnSlide /\ curated.view.by = "user") =>
           curated.view.shownFor >= Due
    /\ (did'.op = "advance" /\ did'.kind = "timeout" /\ OnSlide) => curated.view.clean

\* C27: pausing or navigating by hand cancels every pending auto-advance, also the
\* one-shot of a Message slide: nothing is pending while paused, a one-shot whose slide
\* was left or paused never advances, and after a navigation by hand no automatic
\* advance comes before the new slide has been shown for its full time.
C27_PendingAdvanceCancelled ==
    /\ [](~curated.isPlaying => curated.timers = <<>>)
    /\ [][C27_Step]_cvars

(***************************************************************************)
(* Properties of the objects the repository and the controller share,      *)
(* under SpecShared.                                                       *)
(***************************************************************************)
\* a step leaves every object that stays in the cache as it was stored, and a hit
\* returns the object that is stored
C30_Step ==
    /\ \A k \in DOMAIN cache \cap DOMAIN cache' :
           cache'[k].ref = cache[k].ref => cache'[k].val = cache[k].val
    /\ (last'.how = "hit" /\ last' # last) =>
           /\ last'.key \in DOMAIN cache
           /\ last'.result = cache[last'.key]

C31_Step ==
    \A c \in InFlight :
      (calls'[c].pc = "idle" /\ last'.how = "net" /\ last'.key \in DOMAIN cache) =>
        /\ last'.net >= 1 /\ last'.oks >= 1
        /\ cache'[last'.key] = last'.result
        /\ last'.result.ref # cache[last'.key].ref

C31_NoDeduplication ==
    /\ [](\A c \in InFlight : calls[c].net >= 1)
    /\ [][C31_Step]_vars

\* both overlapping calls have completed and the second replaced the entry of the first
C31_Witness ==
    /\ InFlight = {}
    /\ last.replaced
    /\ cache[last.key] = last.result

(***************************************************************************)
(* Further claims about the cache of the repository (Spec).                *)
(***************************************************************************)
Failures == {"mock", "placeholder", "error"}

\* C35: an entry is created or changed only by the call that completes from a parsed,
\* converted response, and is then the object that call returns; an entry disappears
\* only when clearCache() empties the cache; a call that ended in the sample data, in
\* the placeholder or in an error leaves its key unset, so that the next call for the
\* key does not hit.
C35_Step ==
    /\ \A k \in DOMAIN cache' :
           (k \notin DOMAIN cache \/ cache'[k] # cache[k]) =>
               /\ \E c \in InFlight : calls[c].pc = "json" /\ calls'[c].pc = "idle"
               /\ last'.how = "net" /\ last'.key = k /\ last'.result = cache'[k]
               /\ last'.oks >= 1 /\ last'.body.k # "notjson"
    /\ \A k \in DOMAIN cache \ DOMAIN cache' :
           cache' = EmptyCache /\ calls' = calls /\ nextRef' = nextRef
    /\ last.how \in Failures => ~(last'.how = "hit" /\ last'.key = last.key)

C35_OnlyResponsesAreCached ==
    /\ [](last.how \in Failures => last.key \notin DOMAIN cache)
    /\ [][C35_Step]_vars

\* a call failed, and the next call for its key is at its first request
C35_Witness ==
    /\ prev.how \in Failures
    /\ \E c \in InFlight :
           calls[c].key = prev.key /\ calls[c].pc = "fetch" /\ calls[c].attempt = 1

(***************************************************************************)
(* Further claims about the controller (SpecSlideshow).                    *)
(***************************************************************************)
\* C32: once init() has completed with properties, whatever handlers, ticks and
\* refresh() calls have run since, isPlaying is true exactly when an auto-advance
\* interval is pending; and at no time is an interval pending while isPlaying is false.
C32_FlagAndTimerInStep ==
    /\ loads[0].pc = "ready" => (slideshow.isPlaying <=> slideshow.intervals # {})
    /\ ~slideshow.isPlaying => slideshow.intervals = {}

\* init() has completed, and the user has paused and resumed the slideshow
C32_Witness ==
    /\ loads[0].pc = "ready"
    /\ done.op = "togglePlayPause"
    /\ slideshow.isPlaying
    /\ slideshow.intervals # {}

(***************************************************************************)
(* One of the two pages is open: the page of RealEstateSlideshow or the     *)
(* page of the curated list. The controller of the other page stays as the *)
(* page load left it.                                                      *)
(***************************************************************************)
NextPages ==
    \/ PropertySlideshow_DOMContentLoaded /\ NextSlideshow
    \/ done = NoEvent /\ NextPropertySlideshow

SpecPages == Init /\ [][NextPages]_<<vars, svars, cvars>>

(***************************************************************************)
(* Claims about both controllers (SpecPages).                              *)
(***************************************************************************)
\* the handlers of the curated-list controller that navigate
PropertySlideshow_Navigation == {"nextSlide", "previousSlide", "Home", "End"}

\* C33: while isPlaying is false, before and after a step, no timer callback advances
\* the slide: no interval callback runs in RealEstateSlideshow, and in the curated-list
\* controller no interval and no timeout of a message calls nextSlide(). currentIndex
\* changes only in a navigation handler, or, in RealEstateSlideshow before init() is
\* over, when init() displays the first slide.
C33_Step ==
    /\ (~slideshow.isPlaying /\ svars' # svars) => done'.op # "interval"
    /\ (~slideshow.isPlaying /\ ~slideshow'.isPlaying
        /\ slideshow'.currentIndex # slideshow.currentIndex) =>
           \/ done'.op \in Navigation
           \/ loads[0].pc = "images" /\ done'.op = "load" /\ done'.arg = Num(0)
    /\ (~curated.isPlaying /\ cvars' # cvars) => did'.op # "advance"
    /\ (~curated.isPlaying /\ ~curated'.isPlaying
        /\ curated'.currentIndex # curated.currentIndex) =>
           did'.op \in PropertySlideshow_Navigation

C34_Step ==
    /\ (hidden /\ ~hidden' /\ done.op = "visibilitychange") =>
           /\ slideshow'.isPlaying = (done.arg = Bool(TRUE))
           /\ slideshow'.isPlaying => Cardinality(slideshow'.intervals) = 1
    /\ (curated.hidden /\ ~curated'.hidden /\ did.op = "visibilitychange") =>
           /\ curated'.isPlaying = (did.kind = "playing")
           /\ curated'.isPlaying => Len(curated'.timers) >= 1

C34_HideShowRestoresPlayState == [][C34_Step]_<<svars, cvars>>

(***************************************************************************)
(* Termination. The repository is called by a script of its own, or the    *)
(* page of RealEstateSlideshow runs. Every request that was sent settles,  *)
(* every timer that was set fires, and every promise that settled resumes  *)
(* the function awaiting it: the steps in which a call or a load goes on   *)
(* are taken when they stay possible. Nothing is assumed about the user.   *)
(***************************************************************************)
\* the awaits a load can be suspended at
Loading == {"fetch", "images"}

\* no call of the repository was made
Unused == calls = [c \in Callers |-> Idle] /\ last = NoCall /\ nextRef = 1

NextLive ==
    \/ done = NoEvent /\ Next
    \/ Unused /\ NextSlideshow

\* the step in which the call of caller c goes on
Proceeds(c) ==
    \/ \E outcome \in Outcomes : FetchSettles(c, outcome)
    \/ DelayElapsed(c)
    \/ \E body \in Bodies : JsonSettles(c, body)

\* load l is suspended at an await on the page that runs, and the step in which it
\* goes on
Suspended(l) == Unused /\ loads[l].pc \in Loading
Resumes(l) == loads[l].pc \in Loading /\ loads'[l].pc # loads[l].pc

\* weak fairness of the steps of the calls, and of the steps of the loads, the latter
\* written out with Suspended(l) as the condition under which the step is possible
Fairness ==
    /\ \A c \in Callers : WF_vars(done = NoEvent /\ Proceeds(c))
    /\ \A l \in Loads : []<>(~Suspended(l)) \/ []<><<Resumes(l)>>_svars

SpecLive == Init /\ [][NextLive]_<<vars, svars>> /\ Fairness

\* C36: every call of the repository that is in flight completes, having made at most
\* retryAttempts requests and awaited at most retryAttempts - 1 delays; every init()
\* and refresh() that is suspended on the page comes to its end, which is the slide
\* display (Ready) or the error message (Error), and when no load is suspended the
\* loading indicator is off.
C36_LoadEnds ==
    \A l \in Loads :
        (loads[l].pc \in Loading /\ loads'[l].pc \notin Loading) =>
            /\ done'.op = "load" /\ done'.arg = Num(l)
            /\ done'.load.pc \in {"ready", "error"}
            /\ ~slideshow'.view.loading
            /\ done'.load.pc = "error" => slideshow'.view.error

C36_EverythingCompletes ==
    /\ [](\A c \in Callers :
             /\ calls[c].net <= retryAttempts /\ Len(calls[c].delays) <= retryAttempts - 1
             /\ last.net <= retryAttempts /\ Len(last.delays) <= retryAttempts - 1)
    /\ []((\A l \in Loads : loads[l].pc \notin Loading) => ~slideshow.view.loading)
    /\ [][C36_LoadEnds]_svars
    /\ \A c \in Callers : (calls[c].pc # "idle") ~> (calls[c].pc = "idle")
    /\ \A l \in Loads :
           (done # NoEvent /\ loads[l].pc \in Loading) ~> (loads[l].pc \notin Loading)

\* a call has completed from the response to its third request, after two delays
C36_Witness ==
    /\ last.how = "net"
    /\ last.net = retryAttempts
    /\ Len(last.delays) = retryAttempts - 1
    /\ InFlight = {}

(***************************************************************************)
(* loadProperties() as a state machine: one step per await that settles.   *)
(* The listeners are registered after it has resolved, so no handler runs  *)
(* in between.                                                             *)
(***************************************************************************)
\* fetch('/api/slideshow-list') settles: it rejects, or the response is not ok or ok
ListFetchSettles(outcome) ==
    /\ loader.pc = "list"
    /\ loader' = CASE outcome = "network" -> loadFromAPI(loader, "network")
                   [] outcome = "http" -> loadFromAPI(loader, "http")
                   [] OTHER -> [loader EXCEPT !.pc = "listjson"]
    /\ UNCHANGED <<proxy, vars, pvars, svars, cvars>>

\* listResponse.json() settles, and the loop runs to its first await
ListJsonSettles(body) ==
    /\ loader.pc = "listjson"
    /\ loader' = IF body.k = "array" THEN Loop([loader EXCEPT !.listData = body.items])
                 ELSE loadFromAPI(loader, body.k)
    /\ UNCHANGED <<proxy, vars, pvars, svars, cvars>>

\* loadSalesProperty(item.ref) resolves, with the listing it found or with null, and
\* the loop goes on
SalesSettles(found) ==
    /\ loader.pc = "item"
    /\ loader' = Loop([loader EXCEPT
                           !.properties = IF found THEN Append(@, Sale) ELSE @,
                           !.resolved = Append(@, found)])
    /\ UNCHANGED <<proxy, vars, pvars, svars, cvars>>

\* the fetch of loadFromAPI() settles
FeedFetchSettles(outcome) ==
    /\ loader.pc = "feed"
    /\ loader' = IF outcome = "ok" THEN [loader EXCEPT !.pc = "feedjson"]
                 ELSE FeedEnds(loader, [k |-> outcome, usable |-> <<>>])
    /\ UNCHANGED <<proxy, vars, pvars, svars, cvars>>

\* response.json() of loadFromAPI() settles and the function runs to its end
FeedJsonSettles(body) ==
    /\ loader.pc = "feedjson"
    /\ loader' = FeedEnds(loader, body)
    /\ UNCHANGED <<proxy, vars, pvars, svars, cvars>>

NextLoadProperties ==
    \/ \E outcome \in Outcomes : ListFetchSettles(outcome)
    \/ \E body \in ListBodies : ListJsonSettles(body)
    \/ \E found \in BOOLEAN : SalesSettles(found)
    \/ \E outcome \in Outcomes : FeedFetchSettles(outcome)
    \/ \E body \in FeedBodies : FeedJsonSettles(body)

SpecLoadProperties == Init /\ [][NextLoadProperties]_loader

\* the slides of a list that was read to its end: its items in their order, a message
\* for a MSG item, and no slide for a sales item that was not found
RECURSIVE Slides(_, _)
Slides(items, resolved) ==
    IF items = <<>> THEN <<>>
    ELSE LET item == Head(items)
             slide == CASE item.type = "MSG" ->
                               <<Message(IF item.secs # 0 THEN item.secs
                                         ELSE DefaultDisplayTime)>>
                        [] item.type = "RENT" -> <<Rental>>
                        [] OTHER -> IF Head(resolved) THEN <<Sale>> ELSE <<>>
         IN slide \o Slides(Tail(items), Tail(resolved))

\* the list was fetched and read to its end and gave a slide
ListDelivers ==
    /\ loader.list \notin {"network", "http", "notjson", "notiterable", "threw"}
    /\ \A i \in DOMAIN loader.listData : loader.listData[i].type # "null"
    /\ Len(loader.resolved) = Len(loader.listData)
    /\ Slides(loader.listData, loader.resolved) # <<>>

\* C37: when loadProperties() has resolved, the properties are the slides of the list,
\* in list order, and loadFromAPI() was not called, if the list was fetched, read to
\* its end and gave at least one slide; otherwise loadFromAPI() was called once and the
\* properties are what it assigned alone: the records of the feed that have images,
\* or the mock data, and the mock data only if the request to the feed, or reading its
\* answer, failed.
C37_SourceOrder ==
    loader.pc = "done" =>
        IF ListDelivers
        THEN /\ loader.from = "list" /\ loader.apiCalls = 0
             /\ loader.properties = Slides(loader.listData, loader.resolved)
        ELSE /\ loader.apiCalls = 1
             /\ loader.from \in {"feed", "mock"}
             /\ loader.from = "mock" <=>
                    loader.feed \in {"network", "http", "notjson", "noproperties"}
             /\ loader.from = "mock" =>
                    loader.properties = PropertySlideshow_getMockProperties
             /\ loader.from = "feed" =>
                    \E body \in FeedBodies :
                        body.k = "properties" /\ loader.properties = body.usable

\* the list gave a slide and then threw at an item, and the feed delivered
C37_Witness ==
    /\ loader.pc = "done"
    /\ loader.list = "threw"
    /\ Len(loader.resolved) >= 1
    /\ loader.from = "feed"
    /\ loader.properties = <<Sale, Sale>>

(***************************************************************************)
(* The proxy as a state machine: one step per request and per event of the *)
(* upstream request. An exception thrown from a listener is not caught and *)
(* ends the process.                                                       *)
(***************************************************************************)
Running == \A r \in Requests : ~proxy[r].res.thrown

\* a step of request r
Serve(r, after) ==
    /\ Running
    /\ proxy' = [proxy EXCEPT ![r] = after]
    /\ UNCHANGED <<loader, vars, pvars, svars, cvars>>

\* a request to /api/properties comes in: https.get sends the upstream request
Request(r) ==
    /\ proxy[r].pc = "none"
    /\ \A q \in 1..(r - 1) : proxy[q].pc # "none"
    /\ Serve(r, [proxy[r] EXCEPT !.pc = "waiting"])

\* the upstream response begins: the callback of https.get registers its listeners
Response(r) ==
    /\ proxy[r].pc = "waiting"
    /\ Serve(r, [proxy[r] EXCEPT !.pc = "body"])

\* apiRes.on('data')
Data(r) ==
    /\ proxy[r].pc = "body"
    /\ proxy[r].data < MaxChunks
    /\ Serve(r, [proxy[r] EXCEPT !.data = @ + 1])

\* apiRes.on('end')
End(r) ==
    /\ proxy[r].pc = "body"
    /\ Serve(r, [proxy[r] EXCEPT !.pc = "ended", !.res = end(writeHead(@, 200))])

\* apiReq.on('error'), for an error of the connection before or within the response
Error(r) ==
    /\ proxy[r].pc \in {"waiting", "body"}
    /\ Serve(r, [proxy[r] EXCEPT !.pc = "failed", !.res = end(writeHead(@, 500))])

\* apiReq.on('timeout'): apiReq.destroy() schedules the error event 'socket hang up'
\* when no response has begun, and aborts the response when one has
Timeout(r) ==
    /\ proxy[r].pc \in {"waiting", "body"}
    /\ Serve(r, [proxy[r] EXCEPT !.pc = "destroyed",
                                 !.pendingError = proxy[r].pc = "waiting",
                                 !.res = end(writeHead(@, 504))])

\* apiReq.on('error'), for the error event that destroy() scheduled
DestroyError(r) ==
    /\ proxy[r].pendingError
    /\ Serve(r, [proxy[r] EXCEPT !.pendingError = FALSE, !.res = end(writeHead(@, 500))])

NextProxy ==
    \/ \E r \in Requests : Request(r)
    \/ \E r \in Requests : Response(r)
    \/ \E r \in Requests : Data(r)
    \/ \E r \in Requests : End(r)
    \/ \E r \in Requests : Error(r)
    \/ \E r \in Requests : Timeout(r)
    \/ \E r \in Requests : DestroyError(r)

SpecProxy == Init /\ [][NextProxy]_proxy

\* the events of the upstream request of r are over
Over(r) == proxy[r].pc \in {"ended", "failed", "destroyed"} /\ ~proxy[r].pendingError

\* C38: for every request, no listener calls writeHead on a response whose headers
\* were sent, and when the events of the upstream request are over exactly one status
\* line and one body were written.
C38_OneResponse ==
    \A r \in Requests :
        /\ ~proxy[r].res.thrown
        /\ proxy[r].res.heads <= 1 /\ proxy[r].res.bodies <= 1
        /\ Over(r) => proxy[r].res.heads = 1 /\ proxy[r].res.bodies = 1

====
